---------------------------- MODULE Spec2Model ----------------------------
(***************************************************************************)
(* A model of rosserial_python's SerialClient (SerialClient.py): the frame *)
(* codec (_send and the reader loop of run), the write queue and its       *)
(* writer thread (processWriteQueue), the two transport locks, the sync    *)
(* budget, and the endpoint registry driven by TopicInfo frames.           *)
(*                                                                         *)
(* Bytes are naturals 0..255 and byte strings are sequences of them.  Time *)
(* is counted in units of one link timeout (self.timeout).                 *)
(***************************************************************************)
EXTENDS Integers, Sequences, FiniteSets, TLC

(***************************************************************************)
(* Bounds of the model.                                                    *)
(***************************************************************************)
\* longest byte stream drawn over StreamAlphabet in the codec specification
MaxStream == 8
\* number of chunks the device sends during one session
MaxDevice == 1
\* number of messages the middleware delivers to subscriber callbacks
MaxCallback == 1
\* last instant of the clock
MaxTime == 4
\* number of frames delivered in the registry specification
MaxInstall == 2

\* frames of the wire the loopback feeds back to the reader
MaxEcho == 2

(***************************************************************************)
(* Program constants.                                                      *)
(***************************************************************************)
header == 255
protocol_ver1 == 255
protocol_ver2 == 254
protocol_ver == protocol_ver2
\* self.timeout, the unit of the clock
timeout == 1
\* the ids of rosserial_msgs/TopicInfo the handler table is keyed by
ID_PUBLISHER == 0
ID_SUBSCRIBER == 1
ID_SERVICE_SERVER == 2
ID_SERVICE_CLIENT == 4
ID_PARAMETER_REQUEST == 6
ID_LOG == 7
ID_TIME == 10

ERROR_MISMATCHED_PROTOCOL ==
    "Mismatched protocol version in packet: lost sync or rosserial_python is from different ros release than the rosserial client"
ERROR_NO_SYNC == "no sync with device"
ERROR_PACKET_FAILED == "Packet Failed : Failed to read msg data"

(***************************************************************************)
(* struct and array arithmetic.                                            *)
(***************************************************************************)
RECURSIVE SumBytes(_)
\* sum(array.array('B', b))
SumBytes(b) == IF b = <<>> THEN 0 ELSE Head(b) + SumBytes(Tail(b))

\* struct.pack('<h', x) raises struct.error outside the signed 16-bit range
CanPackShort(x) == x >= -32768 /\ x <= 32767

\* a pack of the two bytes in network order
PackShortBigEndian(x) == LET u == IF x < 0 THEN x + 65536 ELSE x IN <<u \div 256, u % 256>>

\* struct.pack('<h', x): two's complement, little endian
PackShort(x) == LET u == IF x < 0 THEN x + 65536 ELSE x IN <<u % 256, u \div 256>>

\* struct.unpack('<h', b)
UnpackShort(b) == LET u == b[1] + 256 * b[2] IN IF u >= 32768 THEN u - 65536 ELSE u

\* struct.unpack('<H', b)
UnpackUShort(b) == b[1] + 256 * b[2]

\* the first n elements of s
Take(s, n) == SubSeq(s, 1, n)

\* s without its first n elements
Drop(s, n) == SubSeq(s, n + 1, Len(s))

Min(a, b) == IF a < b THEN a ELSE b

(***************************************************************************)
(* _send: the frame it hands to _write, and how the call ends.             *)
(***************************************************************************)
\* an encoder whose checksums are the sums, not their complements
SendFrameSumChecksum(topic, msg_bytes) ==
    LET length_bytes == PackShort(Len(msg_bytes))
        length_checksum == SumBytes(length_bytes) % 256
        topic_bytes == PackShort(topic)
        msg_checksum == SumBytes(topic_bytes \o msg_bytes) % 256
    IN <<header, protocol_ver>> \o length_bytes \o <<length_checksum>>
         \o topic_bytes \o msg_bytes \o <<msg_checksum>>

\* header + version + length + length checksum + topic + payload + checksum
SendFrame(topic, msg_bytes) ==
    LET length_bytes == PackShort(Len(msg_bytes))
        length_checksum == 255 - (SumBytes(length_bytes) % 256)
        topic_bytes == PackShort(topic)
        msg_checksum == 255 - (SumBytes(topic_bytes \o msg_bytes) % 256)
    IN <<header, protocol_ver>> \o length_bytes \o <<length_checksum>>
         \o topic_bytes \o msg_bytes \o <<msg_checksum>>

\* The oversize branch formats its log line with the name msg, which _send
\* does not bind (its parameter is msg_bytes): the branch raises NameError
\* before it can return -1.
SendOversize(length, bufsize) == bufsize > 0 /\ length > bufsize

\* "NameError" | "struct.error" | "write"
SendOutcome(topic, msg_bytes, bufsize) ==
    IF SendOversize(Len(msg_bytes), bufsize) THEN "NameError"
    ELSE IF ~CanPackShort(Len(msg_bytes)) \/ ~CanPackShort(topic) THEN "struct.error"
    ELSE "write"

\* the two literal control frames
RequestTopicsFrame == <<header, protocol_ver, 0, 0, 255, 0, 0, 255>>
TxStopFrame == <<header, protocol_ver, 0, 0, 255, 11, 0, 244>>


(***************************************************************************)
(* State.                                                                  *)
(***************************************************************************)
VARIABLES
    transport,        \* "serial" (pyserial) | "tcp" (RosSerialServer)
    port_in,          \* bytes the transport holds for port.read
    port_open,        \* FALSE once the peer has closed the link
    wire,             \* the data of every completed port.write, in order
    rpc,              \* the reader's position in run()
    need,             \* tryRead: bytes_remaining
    rbuf,             \* tryRead: result
    msg_length,       \* run(): msg_length
    topic_id_header,  \* run(): topic_id_header
    msg,              \* run(): msg
    raw,              \* the bytes read since the last search for a sync flag began
    rt_ret,           \* where the reader's requestTopics() call returns to
    reason,           \* why run() ended
    returned_at,      \* the clock when run() ended
    wpc,              \* the writer's position in processWriteQueue
    wdata,            \* processWriteQueue: data
    wframe,           \* _write: data
    werr,             \* the exception that ended the writer thread
    tx_error,         \* whether port.write has raised
    write_queue,      \* self.write_queue
    enqueued,         \* every write_queue.put so far: who, what, read lock held
    read_lock,        \* self.read_lock
    write_lock,       \* self.write_lock
    synced,           \* self.synced
    lastsync,         \* self.lastsync
    lastsync_lost,    \* self.lastsync_lost
    lastsync_success, \* self.lastsync_success
    last_time_at,     \* the clock at the last handleTimeRequest, -1 before it
    now,              \* rospy.Time.now()
    buffer_in,        \* self.buffer_in
    buffer_out,       \* self.buffer_out
    callbacks,        \* self.callbacks
    publishers,       \* self.publishers
    subscribers,      \* self.subscribers
    services,         \* self.services
    last_install,     \* the last TopicInfo handler that ran, and how it ended
    is_shutdown,      \* rospy.is_shutdown()
    hpc,              \* the shutdown hook's position in txStopRequest
    diagnostics,      \* the messages of the DiagnosticArrays published
    dispatched,       \* every handler-table lookup of run(): topic id, payload, frame bytes
    ndevice,          \* chunks the device has sent
    ncallback,        \* messages the middleware has delivered
    sent,             \* the (topic, payload) pair under test in the loopback specification
    nechoed,          \* frames of the wire the loopback has fed to the reader
    fed,              \* every byte the link has delivered to the transport, in order
    frame_starts,     \* the positions in fed where the sender began a well-formed frame
    raw_at,           \* the position in fed of the first byte of raw
    sync_starts,      \* the positions in fed where a search for the sync flag began
    mismatch_at,      \* the positions in fed of the sync flags a wrong version followed
    dropped_at,       \* the positions in fed of the frames logged for a wrong payload checksum
    ninstall,         \* TopicInfo handlers run in the registry specification
    serversocket,     \* RosSerialUDPServer: the datagrams waiting in self.serversocket
    sendto,           \* the datagrams self.serversocket.sendto has sent
    recv_buffer,      \* RosSerialUDPServer.recv_buffer
    client_address,   \* RosSerialUDPServer.client_address, NoAddress for None
    isConnected,      \* RosSerialUDPServer.isConnected
    udp_msg,          \* RosSerialUDPServer.msg, the bytes read() has gathered
    rqsted_length,    \* the argument of the read() that is waiting in recvfrom
    upc,              \* where the thread of the session is in the UDP port: "idle" | "recvfrom"
    lpc,              \* RosSerialUDPServer.listen: "listen" | "session"
    uwpc,             \* RosSerialUDPServer.write: "idle" | "sendto" | "done" | "not connected" | "TypeError"
    write_data,       \* the argument of that write()
    offset,           \* its offset
    returned,         \* the bytes the read() calls of the session have returned, in order
    accepted,         \* the payloads of the datagrams the session took from the pinned IP, in order
    trigger,          \* the source address of the datagram that made listen() start the session
    flushed,          \* whether flushInput was called since the session began to read
    read_lost,        \* whether a read() of the session has raised with bytes gathered
    narrived,         \* datagrams that have arrived
    nsession,         \* sessions listen() has started
    response,         \* self.response of the ServiceServer of each topic name
    cpc,              \* where each middleware thread is in ServiceServer.callback
    cret,             \* what callback has returned to each of them
    nanswered         \* requests the device has replied to

portVars == <<transport, port_in, port_open, wire>>
readerVars == <<rpc, need, rbuf, msg_length, topic_id_header, msg, raw, rt_ret, reason, returned_at>>
writerVars == <<wpc, wdata, wframe, werr, tx_error>>
queueVars == <<write_queue, enqueued>>
lockVars == <<read_lock, write_lock>>
syncVars == <<synced, lastsync, lastsync_lost, lastsync_success, last_time_at>>
registryVars == <<buffer_in, buffer_out, callbacks, publishers, subscribers, services, last_install>>
feedVars == <<fed, frame_starts, ninstall>>
envVars == <<now, is_shutdown, hpc, ndevice, ncallback, sent, nechoed, feedVars>>
markVars == <<raw_at, sync_starts, mismatch_at, dropped_at>>
logVars == <<diagnostics, dispatched, markVars>>
udpPortVars == <<serversocket, recv_buffer, client_address, isConnected, udp_msg, rqsted_length,
                 upc>>
udpWriteVars == <<sendto, uwpc, write_data, offset>>
udpListenVars == <<lpc, trigger, nsession>>
udpLogVars == <<returned, accepted, flushed, read_lost, narrived>>
udpVars == <<udpPortVars, udpWriteVars, udpListenVars, udpLogVars>>
clientVars == <<portVars, readerVars, writerVars, queueVars, lockVars, syncVars,
                registryVars, envVars, logVars>>
callVars == <<cpc, cret, nanswered>>
serviceVars == <<response, callVars>>
vars == <<clientVars, udpVars, serviceVars>>

\* client_address = None
NoAddress == [ip |-> 0, port |-> 0]

(***************************************************************************)
(* Locks: threading.RLock, owned by the thread that holds it.              *)
(***************************************************************************)
FreeLock == [owner |-> "none", count |-> 0]

\* lock.acquire() can succeed for thread t
CanAcquire(lock, t) == lock.owner \in {"none", t}

Acquire(lock, t) == [owner |-> t, count |-> lock.count + 1]

Release(lock) ==
    IF lock.count = 1 THEN FreeLock ELSE [lock EXCEPT !.count = lock.count - 1]

Holds(lock, t) == lock.owner = t

(***************************************************************************)
(* The write queue: items are ready-made frames (bytes) or (topic, msg)    *)
(* tuples.                                                                 *)
(***************************************************************************)
BytesItem(b) == [kind |-> "bytes", topic |-> 0, data |-> b]

TupleItem(t, m) == [kind |-> "tuple", topic |-> t, data |-> m]

\* write_queue.put(item) by thread t
Put(t, item) ==
    /\ write_queue' = Append(write_queue, item)
    /\ enqueued' = Append(enqueued,
                          [by |-> t, item |-> item, held |-> Holds(read_lock, t)])

\* send(topic, msg)
send(t, topic, m) == Put(t, TupleItem(topic, m))

(***************************************************************************)
(* TopicInfo and the message types of the host.                            *)
(*                                                                         *)
(* A TopicInfo is serialized here in six bytes: topic_id (u16, little      *)
(* endian), then one byte each for topic_name, message_type, md5sum and    *)
(* buffer_size.  Names, types and md5sums are small codes; deserialize     *)
(* raises on any payload of another length, as the generated               *)
(* TopicInfo.deserialize does on a payload it cannot unpack.               *)
(***************************************************************************)
TopicInfoBytes(info) ==
    <<info.topic_id % 256, info.topic_id \div 256, info.topic_name,
      info.message_type, info.md5sum, info.buffer_size>>

CanDeserializeTopicInfo(data) == Len(data) = 6

DeserializeTopicInfo(data) ==
    [topic_id |-> UnpackUShort(Take(data, 2)), topic_name |-> data[3],
     message_type |-> data[4], md5sum |-> data[5], buffer_size |-> data[6]]

NoInfo ==
    [topic_id |-> 0, topic_name |-> 0, message_type |-> 0, md5sum |-> 0, buffer_size |-> 0]

\* the types load_message and load_pkg_module can resolve on the host
KnownTypes == {1, 2}

\* message._md5sum of a message class, mreq._md5sum and mres._md5sum of a service
MsgMd5(ty) == 10 + ty
ReqMd5(ty) == 20 + ty
ResMd5(ty) == 30 + ty

\* srv.mreq._md5sum or srv.mres._md5sum of a service of type ty
ServiceMd5(half, ty) == IF half = "mreq" THEN ReqMd5(ty) ELSE ResMd5(ty)

(***************************************************************************)
(* The endpoint registry.  The handlers are functions of the registry      *)
(*   [buffer_in, buffer_out, callbacks, publishers, subscribers, services] *)
(* to the registry they leave, with ok = FALSE when the handler ended in   *)
(* its except clause.                                                      *)
(***************************************************************************)
Handler(kind, topic, ty, md5) == [kind |-> kind, topic |-> topic, type |-> ty, md5 |-> md5]

SessionHandler(kind) == Handler(kind, 0, 0, 0)

\* self.callbacks as __init__ leaves it
InitCallbacks ==
    (ID_PUBLISHER :> SessionHandler("setupPublisher"))
    @@ (ID_SUBSCRIBER :> SessionHandler("setupSubscriber"))
    @@ (ID_SERVICE_SERVER + ID_PUBLISHER :> SessionHandler("setupServiceServerPublisher"))
    @@ (ID_SERVICE_SERVER + ID_SUBSCRIBER :> SessionHandler("setupServiceServerSubscriber"))
    @@ (ID_SERVICE_CLIENT + ID_PUBLISHER :> SessionHandler("setupServiceClientPublisher"))
    @@ (ID_SERVICE_CLIENT + ID_SUBSCRIBER :> SessionHandler("setupServiceClientSubscriber"))
    @@ (ID_PARAMETER_REQUEST :> SessionHandler("handleParameterRequest"))
    @@ (ID_LOG :> SessionHandler("handleLoggingRequest"))
    @@ (ID_TIME :> SessionHandler("handleTimeRequest"))

Registry ==
    [buffer_in |-> buffer_in, buffer_out |-> buffer_out, callbacks |-> callbacks,
     publishers |-> publishers, subscribers |-> subscribers, services |-> services,
     ok |-> TRUE]

\* the except clause of a handler: what was done before the raise stays done
Failed(reg) == [reg EXCEPT !.ok = FALSE]

\* d[k] = v
DictSet(d, k, v) == (k :> v) @@ d

setPublishSize(reg, size) ==
    IF reg.buffer_out < 0 THEN [reg EXCEPT !.buffer_out = size] ELSE reg

setSubscribeSize(reg, size) ==
    IF reg.buffer_in < 0 THEN [reg EXCEPT !.buffer_in = size] ELSE reg

\* Publisher.__init__ and Subscriber.__init__ succeed: the type loads and the
\* md5sums agree
MessageLoads(info) ==
    info.message_type \in KnownTypes /\ MsgMd5(info.message_type) = info.md5sum

PublisherOf(info) ==
    [topic |-> info.topic_name, type |-> info.message_type, md5 |-> MsgMd5(info.message_type)]

SubscriberOf(info) ==
    [topic |-> info.topic_name, id |-> info.topic_id, type |-> info.message_type,
     md5 |-> MsgMd5(info.message_type), live |-> TRUE]

\* ServiceServer.__init__ / ServiceClient.__init__: self.id is not set yet
\* (-1); the rospy.Service or rospy.ServiceProxy is the live handle
ServiceOf(kind, info) ==
    [kind |-> kind, topic |-> info.topic_name, type |-> info.message_type, id |-> -1,
     live |-> TRUE]

\* a setupPublisher that stores the publisher and registers no handler
setupPublisherWithoutHandler(reg, data) ==
    IF ~CanDeserializeTopicInfo(data) THEN Failed(reg)
    ELSE LET info == DeserializeTopicInfo(data) IN
         IF ~MessageLoads(info) THEN Failed(reg)
         ELSE setPublishSize(
                  [reg EXCEPT !.publishers = DictSet(@, info.topic_id, PublisherOf(info))],
                  info.buffer_size)

setupPublisher(reg, data) ==
    IF ~CanDeserializeTopicInfo(data) THEN Failed(reg)
    ELSE LET info == DeserializeTopicInfo(data) IN
         IF ~MessageLoads(info) THEN Failed(reg)
         ELSE LET pub == PublisherOf(info) IN
              setPublishSize(
                  [reg EXCEPT !.publishers = DictSet(@, info.topic_id, pub),
                              !.callbacks = DictSet(@, info.topic_id,
                                  Handler("Publisher.handlePacket", pub.topic, pub.type, pub.md5))],
                  info.buffer_size)

setupSubscriber(reg, data) ==
    IF ~CanDeserializeTopicInfo(data) THEN Failed(reg)
    ELSE LET info == DeserializeTopicInfo(data)
             name == info.topic_name
         IN IF name \notin DOMAIN reg.subscribers
            THEN IF ~MessageLoads(info) THEN Failed(reg)
                 ELSE setSubscribeSize(
                          [reg EXCEPT !.subscribers = DictSet(@, name, SubscriberOf(info))],
                          info.buffer_size)
            ELSE IF info.message_type # reg.subscribers[name].type
            THEN LET unreg == [reg EXCEPT !.subscribers[name].live = FALSE] IN
                 IF ~MessageLoads(info) THEN Failed(unreg)
                 ELSE setSubscribeSize(
                          [unreg EXCEPT !.subscribers = DictSet(@, name, SubscriberOf(info))],
                          info.buffer_size)
            ELSE reg

\* srv = self.services[name], or a new service stored under name; the new
\* service's constructor raises when the service type does not load
ServiceLookup(reg, kind, info) ==
    IF info.topic_name \in DOMAIN reg.services THEN reg
    ELSE IF info.message_type \notin KnownTypes THEN Failed(reg)
    ELSE [reg EXCEPT !.services = DictSet(@, info.topic_name, ServiceOf(kind, info))]

\* the half that binds srv.handlePacket to topic_id when md5 is srv's md5sum
\* for that half
ServiceBindHandler(reg, kind, info, half) ==
    LET r1 == ServiceLookup(setPublishSize(reg, info.buffer_size), kind, info) IN
    IF ~r1.ok THEN r1
    ELSE LET srv == r1.services[info.topic_name] IN
         IF ServiceMd5(half, srv.type) = info.md5sum
         THEN [r1 EXCEPT !.callbacks = DictSet(@, info.topic_id,
                             Handler(srv.kind \o ".handlePacket", srv.topic, srv.type, 0))]
         ELSE Failed(r1)

\* the half that stores topic_id in srv.id when md5 is srv's md5sum for that half
ServiceBindId(reg, kind, info, half) ==
    LET r1 == ServiceLookup(setSubscribeSize(reg, info.buffer_size), kind, info) IN
    IF ~r1.ok THEN r1
    ELSE LET srv == r1.services[info.topic_name] IN
         IF ServiceMd5(half, srv.type) = info.md5sum
         THEN [r1 EXCEPT !.services[info.topic_name].id = info.topic_id]
         ELSE Failed(r1)

setupServiceServerPublisher(reg, data) ==
    IF ~CanDeserializeTopicInfo(data) THEN Failed(reg)
    ELSE ServiceBindHandler(reg, "ServiceServer", DeserializeTopicInfo(data), "mres")

setupServiceServerSubscriber(reg, data) ==
    IF ~CanDeserializeTopicInfo(data) THEN Failed(reg)
    ELSE ServiceBindId(reg, "ServiceServer", DeserializeTopicInfo(data), "mreq")

setupServiceClientPublisher(reg, data) ==
    IF ~CanDeserializeTopicInfo(data) THEN Failed(reg)
    ELSE ServiceBindHandler(reg, "ServiceClient", DeserializeTopicInfo(data), "mreq")

setupServiceClientSubscriber(reg, data) ==
    IF ~CanDeserializeTopicInfo(data) THEN Failed(reg)
    ELSE ServiceBindId(reg, "ServiceClient", DeserializeTopicInfo(data), "mres")

SetupKinds ==
    {"setupPublisher", "setupSubscriber", "setupServiceServerPublisher",
     "setupServiceServerSubscriber", "setupServiceClientPublisher",
     "setupServiceClientSubscriber"}

\* the registry a TopicInfo handler leaves
SetupResult(kind, reg, data) ==
    CASE kind = "setupPublisher" -> setupPublisher(reg, data)
      [] kind = "setupSubscriber" -> setupSubscriber(reg, data)
      [] kind = "setupServiceServerPublisher" -> setupServiceServerPublisher(reg, data)
      [] kind = "setupServiceServerSubscriber" -> setupServiceServerSubscriber(reg, data)
      [] kind = "setupServiceClientPublisher" -> setupServiceClientPublisher(reg, data)
      [] kind = "setupServiceClientSubscriber" -> setupServiceClientSubscriber(reg, data)

\* run the TopicInfo handler kind on data
Setup(kind, data) ==
    LET r == SetupResult(kind, Registry, data) IN
    /\ buffer_in' = r.buffer_in
    /\ buffer_out' = r.buffer_out
    /\ callbacks' = r.callbacks
    /\ publishers' = r.publishers
    /\ subscribers' = r.subscribers
    /\ services' = r.services
    /\ last_install' = [kind |-> kind, ok |-> r.ok,
                        info |-> IF CanDeserializeTopicInfo(data)
                                 THEN DeserializeTopicInfo(data) ELSE NoInfo]

(***************************************************************************)
(* sendDiagnostics and the session's own handlers.                         *)
(***************************************************************************)
\* sendDiagnostics(ERROR, msg_text) publishes one DiagnosticArray; lost is
\* self.lastsync_lost as the call finds it
sendDiagnostics(msg_text, lost) ==
    diagnostics' = Append(diagnostics,
                          [message |-> msg_text, lastsync |-> lastsync,
                           lastsync_lost |-> lost])

\* the serialized std_msgs/Time of handleTimeRequest: sec (u32), nsec (u32)
TimeBytes(t) == <<t % 256, 0, 0, 0, 0, 0, 0, 0>>

\* RequestParamRequest.deserialize: a string, its length (u32) first
CanDeserializeParamRequest(data) ==
    /\ Len(data) >= 4
    /\ Len(data) = 4 + data[1] + 256 * data[2]
    /\ data[3] = 0 /\ data[4] = 0

\* what rospy.get_param can return for a name
ParamKinds == {"missing", "dict", "scalar", "list", "mixed", "empty list"}

\* the serialized RequestParamResponse: whether a typed array was filled in
ParamResponseBytes(kind) == <<IF kind \in {"scalar", "list"} THEN 1 ELSE 0>>

\* the serialized response of a service proxy
ServiceResponseBytes == <<1>>

(***************************************************************************)
(* The reader: run().                                                      *)
(***************************************************************************)
ReadPhases == {"syncflag", "protocol", "message length", "topic id", "data", "data checksum"}

\* run() ends
Return(why) ==
    /\ rpc' = "returned"
    /\ reason' = why
    /\ returned_at' = now

\* start tryRead(length) for the next step of the frame
StartRead(phase, length) ==
    /\ rpc' = phase
    /\ need' = length
    /\ rbuf' = <<>>

\* the while condition, then the sync budget
RunLoop ==
    /\ rpc = "top"
    /\ IF wpc = "dead" \/ is_shutdown
       THEN /\ rpc' = "join"
            /\ UNCHANGED <<reason, returned_at, rt_ret, syncVars, diagnostics>>
       ELSE IF (now - lastsync) > (timeout * 3)
       THEN IF synced
            THEN /\ Return("lost sync")
                 /\ UNCHANGED <<rt_ret, syncVars, diagnostics>>
            ELSE /\ lastsync_lost' = now
                 /\ sendDiagnostics(ERROR_NO_SYNC, now)
                 /\ rpc' = "requestTopics"
                 /\ rt_ret' = "no sync"
                 /\ UNCHANGED <<reason, returned_at, synced, lastsync, lastsync_success,
                                last_time_at>>
       ELSE /\ rpc' = "acquire"
            /\ UNCHANGED <<reason, returned_at, rt_ret, syncVars, diagnostics>>
    /\ UNCHANGED <<udpVars, serviceVars, portVars, need, rbuf, msg_length, topic_id_header, msg, raw, writerVars,
                   queueVars, lockVars, registryVars, envVars, dispatched, markVars>>

\* self.write_thread.join()
RunJoin ==
    /\ rpc = "join"
    /\ wpc = "dead"
    /\ Return(IF is_shutdown THEN "shutdown" ELSE "writer dead")
    /\ UNCHANGED <<udpVars, serviceVars, portVars, need, rbuf, msg_length, topic_id_header, msg, raw, rt_ret,
                   writerVars, queueVars, lockVars, syncVars, registryVars, envVars, logVars>>

\* port.flushInput(): pyserial discards the input buffer, RosSerialServer passes
flushInput == port_in' = IF transport = "serial" THEN <<>> ELSE port_in

\* requestTopics(), first half: with self.read_lock
RequestTopicsLock ==
    /\ rpc = "requestTopics"
    /\ CanAcquire(read_lock, "reader")
    /\ read_lock' = Acquire(read_lock, "reader")
    /\ rpc' = "flushInput"
    /\ UNCHANGED <<udpVars, serviceVars, portVars, need, rbuf, msg_length, topic_id_header, msg, raw, rt_ret,
                   reason, returned_at, writerVars, queueVars, write_lock, syncVars,
                   registryVars, envVars, logVars>>

\* a requestTopics whose with block does not end before write_queue.put
RequestTopicsFlushKeepsLock ==
    /\ rpc = "flushInput"
    /\ flushInput
    /\ rpc' = "put"
    /\ UNCHANGED <<udpVars, serviceVars, transport, port_open, wire, need, rbuf, msg_length, topic_id_header, msg,
                   raw, rt_ret, reason, returned_at, writerVars, queueVars, lockVars,
                   syncVars, registryVars, envVars, logVars>>

\* requestTopics(): flushInput, and the with block ends
RequestTopicsFlush ==
    /\ rpc = "flushInput"
    /\ flushInput
    /\ read_lock' = Release(read_lock)
    /\ rpc' = "put"
    /\ UNCHANGED <<udpVars, serviceVars, transport, port_open, wire, need, rbuf, msg_length, topic_id_header, msg,
                   raw, rt_ret, reason, returned_at, writerVars, queueVars, write_lock,
                   syncVars, registryVars, envVars, logVars>>

\* requestTopics(): write_queue.put, then back in run()
RequestTopicsPut ==
    /\ rpc = "put"
    /\ Put("reader", BytesItem(RequestTopicsFrame))
    /\ IF rt_ret = "no sync"
       THEN /\ lastsync' = now
            /\ rpc' = "acquire"
       ELSE /\ lastsync' = lastsync
            /\ rpc' = "top"
    /\ UNCHANGED <<udpVars, serviceVars, portVars, need, rbuf, msg_length, topic_id_header, msg, raw, rt_ret,
                   reason, returned_at, writerVars, lockVars, synced, lastsync_lost,
                   lastsync_success, last_time_at, registryVars, envVars, logVars>>

\* acquire_timeout(self.read_lock, 1) gets the lock
RunAcquire ==
    /\ rpc = "acquire"
    /\ CanAcquire(read_lock, "reader")
    /\ read_lock' = Acquire(read_lock, "reader")
    /\ rpc' = "inWaiting"
    /\ UNCHANGED <<udpVars, serviceVars, portVars, need, rbuf, msg_length, topic_id_header, msg, raw, rt_ret,
                   reason, returned_at, writerVars, queueVars, write_lock, syncVars,
                   registryVars, envVars, logVars>>

\* acquire_timeout(self.read_lock, 1) times out: continue
RunAcquireTimeout ==
    /\ rpc = "acquire"
    /\ ~CanAcquire(read_lock, "reader")
    /\ rpc' = "top"
    /\ UNCHANGED <<udpVars, serviceVars, portVars, need, rbuf, msg_length, topic_id_header, msg, raw, rt_ret,
                   reason, returned_at, writerVars, queueVars, lockVars, syncVars,
                   registryVars, envVars, logVars>>

\* port.inWaiting() < 1 under the read lock; the lock is released on every way out
RunInWaiting ==
    /\ rpc = "inWaiting"
    /\ read_lock' = Release(read_lock)
    /\ IF port_in = <<>> /\ ~port_open
       THEN \* RosSerialServer.inWaiting raises RuntimeError: the peer has closed
            /\ Return("closed")
            /\ UNCHANGED <<need, rbuf, raw, raw_at, sync_starts>>
       ELSE IF port_in = <<>>
       THEN /\ rpc' = "top"
            /\ UNCHANGED <<need, rbuf, raw, reason, returned_at, raw_at, sync_starts>>
       ELSE /\ StartRead("syncflag", 1)
            /\ raw' = <<>>
            /\ raw_at' = Len(fed) - Len(port_in) + 1
            /\ sync_starts' = sync_starts \cup {Len(fed) - Len(port_in) + 1}
            /\ UNCHANGED <<reason, returned_at>>
    /\ UNCHANGED <<udpVars, serviceVars, portVars, msg_length, topic_id_header, msg, rt_ret, writerVars, queueVars,
                   write_lock, syncVars, registryVars, envVars, diagnostics, dispatched,
                   mismatch_at, dropped_at>>

\* tryRead: with self.read_lock
TryReadLock ==
    /\ rpc \in ReadPhases
    /\ need # 0
    /\ ~Holds(read_lock, "reader")
    /\ CanAcquire(read_lock, "reader")
    /\ read_lock' = Acquire(read_lock, "reader")
    /\ UNCHANGED <<udpVars, serviceVars, portVars, readerVars, writerVars, queueVars, write_lock, syncVars,
                   registryVars, envVars, logVars>>

\* port.read(size) returns: pyserial gives what has arrived, up to size;
\* RosSerialServer.read gives size bytes or does not return; both give
\* nothing for a negative size
PortReadReturns(size) ==
    size <= 0 \/ transport = "serial" \/ Len(port_in) >= size

PortRead(size) == IF size <= 0 THEN <<>> ELSE Take(port_in, Min(size, Len(port_in)))

\* tryRead: received = self.port.read(bytes_remaining), and the with block ends
TryReadPort ==
    /\ rpc \in ReadPhases
    /\ Holds(read_lock, "reader")
    /\ PortReadReturns(need)
    /\ LET received == PortRead(need) IN
       /\ rbuf' = rbuf \o received
       /\ need' = need - Len(received)
       /\ port_in' = Drop(port_in, Len(received))
    /\ read_lock' = Release(read_lock)
    /\ UNCHANGED <<udpVars, serviceVars, transport, port_open, wire, rpc, msg_length, topic_id_header, msg, raw,
                   rt_ret, reason, returned_at, writerVars, queueVars, write_lock, syncVars,
                   registryVars, envVars, logVars>>

\* tryRead raises IOError and the except clause of run() returns.  With
\* pyserial the loop gives up between two reads, once self.timeout has
\* passed with bytes still missing (a negative length never completes);
\* RosSerialServer.read raises inside the with block, on the socket's
\* timeout or when the peer has closed.
TryReadFail ==
    /\ rpc \in ReadPhases
    /\ need # 0
    /\ IF Holds(read_lock, "reader")
       THEN /\ ~PortReadReturns(need)
            /\ read_lock' = Release(read_lock)
       ELSE /\ need < 0 \/ (transport = "serial" /\ port_in = <<>>)
            /\ read_lock' = read_lock
    /\ IF rpc = "data"
       THEN sendDiagnostics(ERROR_PACKET_FAILED, lastsync_lost)
       ELSE diagnostics' = diagnostics
    /\ Return(IF port_open \/ need < 0 THEN "timeout" ELSE "closed")
    /\ UNCHANGED <<udpVars, serviceVars, portVars, need, rbuf, msg_length, topic_id_header, msg, raw, rt_ret,
                   writerVars, queueVars, write_lock, syncVars, registryVars, envVars,
                   dispatched, markVars>>

\* the frame step that tryRead has just completed
Completed(phase) ==
    /\ rpc = phase
    /\ need = 0
    /\ ~Holds(read_lock, "reader")

\* continue: back to the while condition
Continue ==
    /\ rpc' = "top"
    /\ UNCHANGED <<need, rbuf>>

\* flag[0] = self.tryRead(1)
RunSyncFlag ==
    /\ Completed("syncflag")
    /\ raw' = raw \o rbuf
    /\ IF rbuf # <<header>> THEN Continue ELSE StartRead("protocol", 1)
    /\ UNCHANGED <<udpVars, serviceVars, portVars, msg_length, topic_id_header, msg, rt_ret, reason, returned_at,
                   writerVars, queueVars, lockVars, syncVars, registryVars, envVars, logVars>>

\* a reader that reports a wrong version byte and goes on with the frame
\* instead of searching for the next sync flag
RunProtocolGoesOn ==
    /\ Completed("protocol")
    /\ raw' = raw \o rbuf
    /\ IF rbuf # <<protocol_ver>>
       THEN /\ sendDiagnostics(ERROR_MISMATCHED_PROTOCOL, lastsync_lost)
            /\ mismatch_at' = mismatch_at \cup {raw_at}
       ELSE /\ diagnostics' = diagnostics
            /\ mismatch_at' = mismatch_at
    /\ StartRead("message length", 3)
    /\ UNCHANGED <<udpVars, serviceVars, portVars, msg_length, topic_id_header, msg, rt_ret, reason, returned_at,
                   writerVars, queueVars, lockVars, syncVars, registryVars, envVars,
                   dispatched, raw_at, sync_starts, dropped_at>>

\* flag[1] = self.tryRead(1)
RunProtocol ==
    /\ Completed("protocol")
    /\ raw' = raw \o rbuf
    /\ IF rbuf # <<protocol_ver>>
       THEN /\ sendDiagnostics(ERROR_MISMATCHED_PROTOCOL, lastsync_lost)
            /\ mismatch_at' = mismatch_at \cup {raw_at}
            /\ Continue
       ELSE /\ diagnostics' = diagnostics
            /\ mismatch_at' = mismatch_at
            /\ StartRead("message length", 3)
    /\ UNCHANGED <<udpVars, serviceVars, portVars, msg_length, topic_id_header, msg, rt_ret, reason, returned_at,
                   writerVars, queueVars, lockVars, syncVars, registryVars, envVars,
                   dispatched, raw_at, sync_starts, dropped_at>>

\* the check of the length checksum
LengthChecksumOk(msg_len_bytes) == SumBytes(msg_len_bytes) % 256 = 255

\* msg_len_bytes = self.tryRead(3)
RunMessageLength ==
    /\ Completed("message length")
    /\ raw' = raw \o rbuf
    /\ msg_length' = UnpackShort(Take(rbuf, 2))
    /\ IF ~LengthChecksumOk(rbuf) THEN Continue ELSE StartRead("topic id", 2)
    /\ UNCHANGED <<udpVars, serviceVars, portVars, topic_id_header, msg, rt_ret, reason, returned_at, writerVars,
                   queueVars, lockVars, syncVars, registryVars, envVars, logVars>>

\* topic_id_header = self.tryRead(2)
RunTopicId ==
    /\ Completed("topic id")
    /\ raw' = raw \o rbuf
    /\ topic_id_header' = rbuf
    /\ StartRead("data", msg_length)
    /\ UNCHANGED <<udpVars, serviceVars, portVars, msg_length, msg, rt_ret, reason, returned_at, writerVars,
                   queueVars, lockVars, syncVars, registryVars, envVars, logVars>>

\* msg = self.tryRead(msg_length)
RunData ==
    /\ Completed("data")
    /\ raw' = raw \o rbuf
    /\ msg' = rbuf
    /\ StartRead("data checksum", 1)
    /\ UNCHANGED <<udpVars, serviceVars, portVars, msg_length, topic_id_header, rt_ret, reason, returned_at,
                   writerVars, queueVars, lockVars, syncVars, registryVars, envVars, logVars>>

\* a reader that takes every payload checksum for right
AnyPayloadChecksum(tid_header, payload, chk) == TRUE

\* the check of the payload checksum
PayloadChecksumOk(tid_header, payload, chk) ==
    SumBytes(tid_header \o payload \o chk) % 256 = 255

\* a reader that gives up at the first wrong payload checksum
RunChecksumStopsOnFailure ==
    /\ Completed("data checksum")
    /\ raw' = raw \o rbuf
    /\ IF PayloadChecksumOk(topic_id_header, msg, rbuf)
       THEN /\ synced' = TRUE
            /\ lastsync_success' = now
            /\ dispatched' = Append(dispatched,
                                    [topic_id |-> UnpackUShort(topic_id_header),
                                     msg |-> msg, frame |-> raw \o rbuf, at |-> raw_at])
            /\ rpc' = "dispatch"
            /\ UNCHANGED <<need, rbuf, dropped_at, reason, returned_at>>
       ELSE /\ dropped_at' = dropped_at \cup {raw_at}
            /\ Return("wrong checksum")
            /\ UNCHANGED <<need, rbuf, synced, lastsync_success, dispatched>>
    /\ UNCHANGED <<udpVars, serviceVars, portVars, msg_length, topic_id_header, msg, rt_ret,
                   writerVars, queueVars, lockVars, lastsync, lastsync_lost, last_time_at,
                   registryVars, envVars, diagnostics, raw_at, sync_starts, mismatch_at>>

\* chk = self.tryRead(1): a frame whose checksum is right sets synced and
\* goes to the handler table
RunChecksum ==
    /\ Completed("data checksum")
    /\ raw' = raw \o rbuf
    /\ IF PayloadChecksumOk(topic_id_header, msg, rbuf)
       THEN /\ synced' = TRUE
            /\ lastsync_success' = now
            /\ dispatched' = Append(dispatched,
                                    [topic_id |-> UnpackUShort(topic_id_header),
                                     msg |-> msg, frame |-> raw \o rbuf, at |-> raw_at])
            /\ rpc' = "dispatch"
            /\ UNCHANGED <<need, rbuf, dropped_at>>
       ELSE \* rospy.loginfo("wrong checksum for topic id and msg")
            /\ dropped_at' = dropped_at \cup {raw_at}
            /\ Continue
            /\ UNCHANGED <<synced, lastsync_success, dispatched>>
    /\ UNCHANGED <<udpVars, serviceVars, portVars, msg_length, topic_id_header, msg, rt_ret, reason, returned_at,
                   writerVars, queueVars, lockVars, lastsync, lastsync_lost, last_time_at,
                   registryVars, envVars, diagnostics, raw_at, sync_starts, mismatch_at>>

\* a handleTimeRequest that answers and leaves self.lastsync as it is
handleTimeRequestWithoutRefresh(data) ==
    /\ send("reader", ID_TIME, TimeBytes(now))
    /\ lastsync' = lastsync
    /\ last_time_at' = now

\* handleTimeRequest: the host's time goes to the device, and self.lastsync is now
handleTimeRequest(data) ==
    /\ send("reader", ID_TIME, TimeBytes(now))
    /\ lastsync' = now
    /\ last_time_at' = now

\* self.mres().deserialize(data) of ServiceServer.handlePacket: the response
\* of the services here is one byte
CanDeserializeResponse(data) == Len(data) = 1

\* self.callbacks[topic_id](msg) for a handler h of the table, run by the reader
Handle(h, data) ==
    \/ /\ h.kind \in SetupKinds
       /\ Setup(h.kind, data)
       /\ Continue
       /\ UNCHANGED <<queueVars, lastsync, last_time_at, reason, returned_at, response>>
    \/ /\ h.kind = "handleTimeRequest"
       /\ handleTimeRequest(data)
       /\ Continue
       /\ UNCHANGED <<registryVars, reason, returned_at, response>>
    \/ /\ h.kind = "handleParameterRequest"
       /\ IF ~CanDeserializeParamRequest(data)
          THEN /\ Continue
               /\ UNCHANGED <<queueVars, reason, returned_at>>
          ELSE \E param \in ParamKinds :
                   IF param = "empty list"
                   THEN \* param[0] raises IndexError, which nothing in run() catches
                        /\ Return("IndexError")
                        /\ UNCHANGED <<queueVars, need, rbuf>>
                   ELSE /\ send("reader", ID_PARAMETER_REQUEST, ParamResponseBytes(param))
                        /\ Continue
                        /\ UNCHANGED <<reason, returned_at>>
       /\ UNCHANGED <<registryVars, lastsync, last_time_at, response>>
    \/ /\ h.kind \in {"handleLoggingRequest", "Publisher.handlePacket"}
       /\ Continue
       /\ UNCHANGED <<registryVars, queueVars, lastsync, last_time_at, reason, returned_at,
                      response>>
    \/ /\ h.kind = "ServiceServer.handlePacket"
       /\ response' = IF CanDeserializeResponse(data)
                      THEN [response EXCEPT ![h.topic] = data]
                      ELSE response
       /\ Continue
       /\ UNCHANGED <<registryVars, queueVars, lastsync, last_time_at, reason, returned_at>>
    \/ /\ h.kind = "ServiceClient.handlePacket"
       /\ \E answered \in BOOLEAN :
              IF answered /\ services[h.topic].id >= 0
              THEN send("reader", services[h.topic].id, ServiceResponseBytes)
              ELSE UNCHANGED queueVars
       /\ Continue
       /\ UNCHANGED <<registryVars, lastsync, last_time_at, reason, returned_at, response>>

\* a dispatch step that lets a frame of an unknown topic pass without asking
\* for the topics again
RunDispatchSkipsUnknownTopic ==
    /\ rpc = "dispatch"
    /\ LET topic_id == UnpackUShort(topic_id_header) IN
       IF topic_id \in DOMAIN callbacks
       THEN /\ Handle(callbacks[topic_id], msg)
            /\ rt_ret' = rt_ret
       ELSE /\ Continue
            /\ rt_ret' = "dispatch"
            /\ UNCHANGED <<reason, returned_at, queueVars, lastsync, last_time_at, response,
                           registryVars>>
    /\ UNCHANGED <<udpVars, callVars, portVars, msg_length, topic_id_header, msg, raw, writerVars, lockVars,
                   synced, lastsync_lost, lastsync_success, envVars, logVars>>

\* try: self.callbacks[topic_id](msg)  except KeyError: self.requestTopics()
RunDispatch ==
    /\ rpc = "dispatch"
    /\ LET topic_id == UnpackUShort(topic_id_header) IN
       IF topic_id \in DOMAIN callbacks
       THEN /\ Handle(callbacks[topic_id], msg)
            /\ rt_ret' = rt_ret
       ELSE /\ rpc' = "requestTopics"
            /\ rt_ret' = "dispatch"
            /\ UNCHANGED <<need, rbuf, reason, returned_at, queueVars, lastsync, last_time_at, response,
                           registryVars>>
    /\ UNCHANGED <<udpVars, callVars, portVars, msg_length, topic_id_header, msg, raw, writerVars, lockVars,
                   synced, lastsync_lost, lastsync_success, envVars, logVars>>

(***************************************************************************)
(* The writer thread: processWriteQueue, _send and _write.                 *)
(***************************************************************************)
\* a writer that takes the item put last
WriterLoopTakesLast ==
    /\ wpc = "top"
    /\ IF is_shutdown
       THEN /\ wpc' = "dead"
            /\ UNCHANGED <<wdata, write_queue>>
       ELSE /\ write_queue # <<>>
            /\ wdata' = write_queue[Len(write_queue)]
            /\ write_queue' = SubSeq(write_queue, 1, Len(write_queue) - 1)
            /\ wpc' = "try"
    /\ UNCHANGED <<udpVars, serviceVars, portVars, readerVars, wframe, werr, tx_error, enqueued, lockVars, syncVars,
                   registryVars, envVars, logVars>>

\* while not rospy.is_shutdown(): data = self.write_queue.get()
WriterLoop ==
    /\ wpc = "top"
    /\ IF is_shutdown
       THEN /\ wpc' = "dead"
            /\ UNCHANGED <<wdata, write_queue>>
       ELSE /\ write_queue # <<>>
            /\ wdata' = Head(write_queue)
            /\ write_queue' = Tail(write_queue)
            /\ wpc' = "try"
    /\ UNCHANGED <<udpVars, serviceVars, portVars, readerVars, wframe, werr, tx_error, enqueued, lockVars, syncVars,
                   registryVars, envVars, logVars>>

\* the try block: _send(topic, msg) or _write(data), up to with self.write_lock.
\* An exception of _send that is neither SerialTimeoutException nor
\* RuntimeError ends the thread.
WriterTry ==
    /\ wpc = "try"
    /\ LET outcome == IF wdata.kind = "tuple"
                      THEN SendOutcome(wdata.topic, wdata.data, buffer_in)
                      ELSE "write"
       IN IF outcome = "write"
          THEN /\ CanAcquire(write_lock, "writer")
               /\ write_lock' = Acquire(write_lock, "writer")
               /\ wframe' = IF wdata.kind = "tuple"
                            THEN SendFrame(wdata.topic, wdata.data)
                            ELSE wdata.data
               /\ wpc' = "write"
               /\ werr' = werr
          ELSE /\ wpc' = "dead"
               /\ werr' = outcome
               /\ UNCHANGED <<write_lock, wframe>>
    /\ UNCHANGED <<udpVars, serviceVars, portVars, readerVars, wdata, tx_error, queueVars, read_lock, syncVars,
                   registryVars, envVars, logVars>>

\* self.port.write(data) returns; the with block ends; break.  A socket that
\* has raised BrokenPipeError raises it on every later send.
WriterWrite ==
    /\ wpc = "write"
    /\ ~(transport = "tcp" /\ tx_error)
    /\ wire' = Append(wire, wframe)
    /\ write_lock' = Release(write_lock)
    /\ wpc' = "top"
    /\ UNCHANGED <<udpVars, serviceVars, transport, port_in, port_open, readerVars, wdata, wframe, werr, tx_error,
                   queueVars, read_lock, syncVars, registryVars, envVars, logVars>>

\* pyserial's write raises SerialTimeoutException: sleep(1), same item again
WriterWriteTimeout ==
    /\ wpc = "write"
    /\ transport = "serial"
    /\ write_lock' = Release(write_lock)
    /\ tx_error' = TRUE
    /\ wpc' = "try"
    /\ UNCHANGED <<udpVars, serviceVars, portVars, readerVars, wdata, wframe, werr, queueVars, read_lock, syncVars,
                   registryVars, envVars, logVars>>

\* RosSerialServer.write raises RuntimeError on a broken pipe: break, and
\* the outer loop goes on with the next item
WriterWriteRuntimeError ==
    /\ wpc = "write"
    /\ transport = "tcp"
    /\ ~port_open
    /\ write_lock' = Release(write_lock)
    /\ tx_error' = TRUE
    /\ wpc' = "top"
    /\ UNCHANGED <<udpVars, serviceVars, portVars, readerVars, wdata, wframe, werr, queueVars, read_lock, syncVars,
                   registryVars, envVars, logVars>>

(***************************************************************************)
(* The shutdown hook: txStopRequest, run by rospy's signal handling before *)
(* rospy.is_shutdown() turns true.                                         *)
(***************************************************************************)
\* the shutdown signal arrives
SignalShutdown ==
    /\ hpc = "idle"
    /\ hpc' = "txStopRequest"
    /\ UNCHANGED <<udpVars, serviceVars, portVars, readerVars, writerVars, queueVars, lockVars, syncVars,
                   registryVars, now, is_shutdown, ndevice, ncallback, sent, nechoed, feedVars, logVars>>

\* txStopRequest: with self.read_lock
TxStopLock ==
    /\ hpc = "txStopRequest"
    /\ CanAcquire(read_lock, "hook")
    /\ read_lock' = Acquire(read_lock, "hook")
    /\ hpc' = "flushInput"
    /\ UNCHANGED <<udpVars, serviceVars, portVars, readerVars, writerVars, queueVars, write_lock, syncVars,
                   registryVars, now, is_shutdown, ndevice, ncallback, sent, nechoed, feedVars, logVars>>

\* a txStopRequest that takes the write lock inside with self.read_lock
TxStopFlushTakesWriteLock ==
    /\ hpc = "flushInput"
    /\ CanAcquire(write_lock, "hook")
    /\ write_lock' = Acquire(write_lock, "hook")
    /\ flushInput
    /\ hpc' = "put"
    /\ UNCHANGED <<udpVars, serviceVars, transport, port_open, wire, readerVars, writerVars, queueVars, read_lock,
                   syncVars, registryVars, now, is_shutdown, ndevice, ncallback, sent,
                   nechoed, feedVars, logVars>>

\* txStopRequest: flushInput, and the with block ends
TxStopFlush ==
    /\ hpc = "flushInput"
    /\ flushInput
    /\ read_lock' = Release(read_lock)
    /\ hpc' = "put"
    /\ UNCHANGED <<udpVars, serviceVars, transport, port_open, wire, readerVars, writerVars, queueVars, write_lock,
                   syncVars, registryVars, now, is_shutdown, ndevice, ncallback, sent,
                   nechoed, feedVars, logVars>>

\* txStopRequest: write_queue.put
TxStopPut ==
    /\ hpc = "put"
    /\ Put("hook", BytesItem(TxStopFrame))
    /\ hpc' = "hooked"
    /\ UNCHANGED <<udpVars, serviceVars, portVars, readerVars, writerVars, lockVars, syncVars, registryVars, now,
                   is_shutdown, ndevice, ncallback, sent, nechoed, feedVars, logVars>>

\* the hooks have run: rospy raises its shutdown flag
ShutdownFlag ==
    /\ hpc = "hooked"
    /\ hpc' = "done"
    /\ is_shutdown' = TRUE
    /\ UNCHANGED <<udpVars, serviceVars, portVars, readerVars, writerVars, queueVars, lockVars, syncVars,
                   registryVars, now, ndevice, ncallback, sent, nechoed, feedVars, logVars>>

(***************************************************************************)
(* The middleware, the device and the clock.                               *)
(***************************************************************************)
\* payloads of the messages the middleware delivers
CallbackPayloads == {<<7>>, <<1, 2, 3>>}

\* Subscriber.callback(msg) of a live subscription: self.parent.send(self.id, ...)
SubscriberCallback ==
    /\ ncallback < MaxCallback
    /\ \E name \in DOMAIN subscribers : \E payload \in CallbackPayloads :
           /\ subscribers[name].live
           /\ send("callback", subscribers[name].id, payload)
    /\ ncallback' = ncallback + 1
    /\ UNCHANGED <<udpVars, serviceVars, portVars, readerVars, writerVars, lockVars, syncVars, registryVars, now,
                   is_shutdown, hpc, ndevice, sent, nechoed, feedVars, logVars>>

\* a frame as the device builds it: topic ids are u16 on the wire
DeviceFrame(topic, payload) ==
    LET length_bytes == <<Len(payload) % 256, Len(payload) \div 256>>
        topic_bytes == <<topic % 256, topic \div 256>>
    IN <<255, 254>> \o length_bytes \o <<255 - (SumBytes(length_bytes) % 256)>>
         \o topic_bytes \o payload
         \o <<255 - (SumBytes(topic_bytes \o payload) % 256)>>

\* s with its last byte changed by one
Corrupt(s) == [s EXCEPT ![Len(s)] = (@ + 1) % 256]

\* the subscriber the device announces in the session specification
DeviceSubscriber ==
    [topic_id |-> 101, topic_name |-> 1, message_type |-> 1, md5sum |-> MsgMd5(1),
     buffer_size |-> 2]

\* the well-formed frames the device sends in the session specification
DeviceFrames ==
    {DeviceFrame(ID_TIME, <<>>),
     DeviceFrame(125, <<5>>),
     DeviceFrame(ID_SUBSCRIBER, TopicInfoBytes(DeviceSubscriber))}

\* what the device sends in the session specification
DeviceChunks == DeviceFrames \cup {Corrupt(DeviceFrame(125, <<5>>)), <<255, 254, 0>>}

\* the link delivers chunk, which is or is not one well-formed frame
Feed(chunk, wellformed) ==
    /\ port_in' = port_in \o chunk
    /\ fed' = fed \o chunk
    /\ frame_starts' = IF wellformed THEN frame_starts \cup {Len(fed) + 1} ELSE frame_starts
    /\ ninstall' = ninstall

DeviceSend ==
    /\ ndevice < MaxDevice
    /\ port_open
    /\ \E chunk \in DeviceChunks : Feed(chunk, chunk \in DeviceFrames)
    /\ ndevice' = ndevice + 1
    /\ UNCHANGED <<udpVars, serviceVars, transport, port_open, wire, readerVars, writerVars, queueVars, lockVars,
                   syncVars, registryVars, now, is_shutdown, hpc, ncallback, sent, nechoed,
                   logVars>>

\* the peer of a TCP link closes it
DeviceClose ==
    /\ transport = "tcp"
    /\ port_open
    /\ port_open' = FALSE
    /\ UNCHANGED <<udpVars, serviceVars, transport, port_in, wire, readerVars, writerVars, queueVars, lockVars,
                   syncVars, registryVars, envVars, logVars>>

\* one link timeout passes
Tick ==
    /\ now < MaxTime
    /\ now' = now + 1
    /\ UNCHANGED <<udpVars, serviceVars, portVars, readerVars, writerVars, queueVars, lockVars, syncVars,
                   registryVars, is_shutdown, hpc, ndevice, ncallback, sent, nechoed, feedVars, logVars>>

(***************************************************************************)
(* The session: the state __init__ leaves, with the writer thread started  *)
(* by run().                                                               *)
(***************************************************************************)
NoItem == BytesItem(<<>>)

\* RosSerialUDPServer.__init__ and the head of listen(), and nothing sent or
\* received yet
UdpConstructed ==
    /\ serversocket = <<>>
    /\ sendto = <<>>
    /\ recv_buffer = <<>>
    /\ client_address = NoAddress
    /\ isConnected = FALSE
    /\ udp_msg = <<>>
    /\ rqsted_length = 0
    /\ upc = "idle"
    /\ lpc = "listen"
    /\ uwpc = "idle"
    /\ write_data = <<>>
    /\ offset = 0
    /\ returned = <<>>
    /\ accepted = <<>>
    /\ trigger = NoAddress
    /\ flushed = FALSE
    /\ read_lost = FALSE
    /\ narrived = 0
    /\ nsession = 0

\* the topic names of the TopicInfos
TopicNames == {1, 2}

\* the middleware threads that call the service of the device
Callers == {1, 2}

\* self.response before any call, and after self.response = None
Unset == <<-1>>
None == <<-2>>

\* no ServiceServer has been called or answered
ServiceConstructed ==
    /\ response = [name \in TopicNames |-> Unset]
    /\ cpc = [c \in Callers |-> "idle"]
    /\ cret = [c \in Callers |-> Unset]
    /\ nanswered = 0

Constructed ==
    /\ UdpConstructed
    /\ ServiceConstructed
    /\ port_open = TRUE
    /\ wire = <<>>
    /\ rpc = "top"
    /\ need = 0
    /\ rbuf = <<>>
    /\ msg_length = 0
    /\ topic_id_header = <<0, 0>>
    /\ msg = <<>>
    /\ raw = <<>>
    /\ rt_ret = "dispatch"
    /\ reason = "running"
    /\ returned_at = 0
    /\ wpc = "top"
    /\ wdata = NoItem
    /\ wframe = <<>>
    /\ werr = "none"
    /\ tx_error = FALSE
    /\ read_lock = FreeLock
    /\ write_lock = FreeLock
    /\ synced = FALSE
    /\ lastsync = 0
    /\ lastsync_lost = 0
    /\ lastsync_success = 0
    /\ last_time_at = -1
    /\ now = 0
    /\ buffer_out = -1
    /\ callbacks = InitCallbacks
    /\ publishers = <<>>
    /\ subscribers = <<>>
    /\ services = <<>>
    /\ last_install = [kind |-> "none", ok |-> FALSE, info |-> NoInfo]
    /\ is_shutdown = FALSE
    /\ hpc = "idle"
    /\ diagnostics = <<>>
    /\ dispatched = <<>>
    /\ ndevice = 0
    /\ ncallback = 0
    /\ nechoed = 0
    /\ raw_at = 0
    /\ sync_starts = {}
    /\ mismatch_at = {}
    /\ dropped_at = {}
    /\ ninstall = 0

\* __init__ ends with requestTopics()
FirstPut == [by |-> "init", item |-> BytesItem(RequestTopicsFrame), held |-> FALSE]

Init ==
    /\ Constructed
    /\ buffer_in = -1
    /\ transport \in {"serial", "tcp"}
    /\ port_in = <<>>
    /\ fed = <<>>
    /\ frame_starts = {}
    /\ write_queue = <<BytesItem(RequestTopicsFrame)>>
    /\ enqueued = <<FirstPut>>
    /\ sent = NoItem

Reader ==
    \/ RunLoop
    \/ RunJoin
    \/ RequestTopicsLock
    \/ RequestTopicsFlush
    \/ RequestTopicsPut
    \/ RunAcquire
    \/ RunAcquireTimeout
    \/ RunInWaiting
    \/ TryReadLock
    \/ TryReadPort
    \/ TryReadFail
    \/ RunSyncFlag
    \/ RunProtocol
    \/ RunMessageLength
    \/ RunTopicId
    \/ RunData
    \/ RunChecksum
    \/ RunDispatch

Writer ==
    \/ WriterLoop
    \/ WriterTry
    \/ WriterWrite
    \/ WriterWriteTimeout
    \/ WriterWriteRuntimeError

Hook ==
    \/ SignalShutdown
    \/ TxStopLock
    \/ TxStopFlush
    \/ TxStopPut
    \/ ShutdownFlag

Next ==
    \/ Reader
    \/ Writer
    \/ Hook
    \/ SubscriberCallback
    \/ DeviceSend
    \/ DeviceClose
    \/ Tick

Spec == Init /\ [][Next]_vars

(***************************************************************************)
(* The reader alone over a stream that is already in the transport: every  *)
(* byte string over StreamAlphabet up to MaxStream bytes, and well-formed  *)
(* frames behind the prefixes that make the reader search for the sync     *)
(* flag again.                                                             *)
(***************************************************************************)
StreamAlphabet == {0, protocol_ver, header}

\* the streams that begin with the sync flag: a reader skips any other first byte
AlphabetStreams ==
    {<<>>} \cup {<<header>> \o s : s \in UNION {[1..n -> StreamAlphabet] : n \in 0..(MaxStream - 1)}}

\* the example of a frame with an unsupported version byte
MismatchExample == <<255, 253, 0, 0, 255, 0, 0, 255>>

CodecPrefixes ==
    {<<>>, <<7>>, <<header, 253>>, <<header, protocol_ver1>>, <<header, 253, 0, 0>>,
     MismatchExample, <<header, protocol_ver, 1, 0, 77>>, Corrupt(DeviceFrame(42, <<1, 2, 3>>))}

CodecFrames == {DeviceFrame(42, <<1, 2, 3>>), DeviceFrame(ID_TIME, <<>>), DeviceFrame(125, <<255>>)}

InitCodec ==
    /\ Constructed
    /\ buffer_in = -1
    /\ transport \in {"serial", "tcp"}
    /\ \/ /\ port_in \in AlphabetStreams
          /\ frame_starts = {}
       \/ \E p \in CodecPrefixes, f \in CodecFrames :
            /\ port_in = p \o f
            /\ frame_starts = {Len(p) + 1}
       \/ \E p \in CodecPrefixes, f \in CodecFrames, g \in CodecFrames :
            /\ port_in = p \o f \o g
            /\ frame_starts = {Len(p) + 1, Len(p) + Len(f) + 1}
    /\ fed = port_in
    /\ write_queue = <<BytesItem(RequestTopicsFrame)>>
    /\ enqueued = <<FirstPut>>
    /\ sent = NoItem

NextCodec ==
    \/ RunLoop
    \/ RequestTopicsLock
    \/ RequestTopicsFlush
    \/ RequestTopicsPut
    \/ RunAcquire
    \/ RunInWaiting
    \/ TryReadLock
    \/ TryReadPort
    \/ TryReadFail
    \/ RunSyncFlag
    \/ RunProtocol
    \/ RunMessageLength
    \/ RunTopicId
    \/ RunData
    \/ RunChecksum
    \/ RunDispatch

SpecCodec == InitCodec /\ [][NextCodec]_vars

(***************************************************************************)
(* Properties of the reader's decoding.                                    *)
(***************************************************************************)
\* the bytes f are one frame of the wire format: sync flag, version, length
\* with its checksum, topic id, payload of that length, payload checksum
WellFormed(f) ==
    /\ Len(f) >= 8
    /\ f[1] = 255
    /\ f[2] = 254
    /\ (f[3] + f[4] + f[5]) % 256 = 255
    /\ Len(f) = 8 + f[3] + 256 * f[4]
    /\ SumBytes(SubSeq(f, 6, Len(f))) % 256 = 255

\* the frame the sender began at position p of the stream
FrameAt(p) == SubSeq(fed, p, p + 7 + fed[p + 2] + 256 * fed[p + 3])

\* the reader has finished with the bytes it began to read at position p
ReaderPast(p) == raw_at > p \/ (raw_at = p /\ rpc \notin ReadPhases)

\* C2: whatever the transport delivers, the reader takes a (topic_id, payload)
\* to the handler table, and sets synced, only for bytes that begin with
\* FF FE and satisfy the length checksum and the payload checksum; the
\* topic id and the payload it dispatches are those of that frame.
C2_OnlyValidFramesDispatched ==
    /\ \A i \in DOMAIN dispatched :
         LET f == dispatched[i].frame IN
         /\ WellFormed(f)
         /\ dispatched[i].topic_id = f[6] + 256 * f[7]
         /\ dispatched[i].msg = SubSeq(f, 8, Len(f) - 1)
    /\ synced => dispatched # <<>>
    /\ rpc = "dispatch" => dispatched # <<>>

\* a frame with a payload is dispatched after bytes the reader has rejected
C2_Witness ==
    /\ synced
    /\ \E i \in DOMAIN dispatched : dispatched[i].at > 1 /\ dispatched[i].msg # <<>>

\* C10 (as amended): a wrong version byte after a sync flag gives one
\* diagnostic and no dispatch, the reader does not return, and it searches
\* for the next sync flag from the byte after the version byte; a well-formed
\* frame is dispatched whenever that search begins at the frame's first byte.
C10_ResumesAfterMismatch ==
    /\ \A p \in mismatch_at :
         /\ fed[p] = header
         /\ fed[p + 1] # protocol_ver
         /\ \A i \in DOMAIN dispatched : dispatched[i].at # p
         /\ rpc = "returned" => raw_at # p
         /\ raw_at > p => p + 2 \in sync_starts
    /\ Cardinality({i \in DOMAIN diagnostics :
                      diagnostics[i].message = ERROR_MISMATCHED_PROTOCOL})
         = Cardinality(mismatch_at)
    /\ \A p \in frame_starts \cap sync_starts :
         ReaderPast(p) =>
             \E i \in DOMAIN dispatched :
                 dispatched[i].at = p /\ dispatched[i].frame = FrameAt(p)

\* a frame is dispatched after a wrong version byte
C10_Witness ==
    \E p \in mismatch_at, i \in DOMAIN dispatched :
        /\ dispatched[i].at > p
        /\ dispatched[i].at \in frame_starts

\* C10 (as stated): once the reader has taken the whole stream, every
\* well-formed frame that followed a wrong version byte has been dispatched.
C10_EveryFollowingFrameDispatched ==
    (transport = "tcp" /\ port_in = <<>> /\ rpc \notin ReadPhases \cup {"dispatch"}) =>
        \A m \in mismatch_at, p \in frame_starts :
            p > m + 1 => \E i \in DOMAIN dispatched : dispatched[i].at = p

(***************************************************************************)
(* The loopback: what the writer puts on the wire comes back to the reader *)
(* of the same session.  One (topic, payload) item waits in the write      *)
(* queue behind the request for topics that __init__ has put there; the    *)
(* subscribe-buffer size is the one of __init__ or a negotiated one that   *)
(* every payload fits.                                                     *)
(***************************************************************************)
LoopTopics == {0, 11, 42, 255, 256, 32767, 32768, 65535}

LoopPayloads == {<<>>, <<7>>, <<255, 254>>, <<1, 2, 3>>}

LoopBufferSizes == {-1, 3}

InitLoop ==
    /\ Constructed
    /\ buffer_in \in LoopBufferSizes
    /\ transport \in {"serial", "tcp"}
    /\ port_in = <<>>
    /\ fed = <<>>
    /\ frame_starts = {}
    /\ \E t \in LoopTopics, m \in LoopPayloads : sent = TupleItem(t, m)
    /\ write_queue = <<BytesItem(RequestTopicsFrame), sent>>
    /\ enqueued = <<FirstPut, [by |-> "callback", item |-> sent, held |-> FALSE]>>

\* the next frame of the wire arrives at the reader
Echo ==
    /\ nechoed < Len(wire)
    /\ nechoed < MaxEcho
    /\ Feed(wire[nechoed + 1], TRUE)
    /\ nechoed' = nechoed + 1
    /\ UNCHANGED <<udpVars, serviceVars, transport, port_open, wire, readerVars, writerVars, queueVars, lockVars,
                   syncVars, registryVars, now, is_shutdown, hpc, ndevice, ncallback, sent,
                   logVars>>

NextLoop ==
    \/ WriterLoop
    \/ WriterTry
    \/ WriterWrite
    \/ Echo
    \/ RunLoop
    \/ RunJoin
    \/ RequestTopicsLock
    \/ RequestTopicsFlush
    \/ RequestTopicsPut
    \/ RunAcquire
    \/ RunInWaiting
    \/ TryReadLock
    \/ TryReadPort
    \/ RunSyncFlag
    \/ RunProtocol
    \/ RunMessageLength
    \/ RunTopicId
    \/ RunData
    \/ RunChecksum
    \/ RunDispatch

SpecLoop == InitLoop /\ [][NextLoop]_vars

\* the writer is through with the item under test, and the reader with
\* everything the loopback has brought back
LoopDone ==
    /\ write_queue = <<>> \/ Head(write_queue) # sent
    /\ Len(write_queue) <= 1
    /\ wpc \in {"top", "dead"}
    /\ nechoed = MaxEcho \/ (nechoed = Len(wire) /\ wpc = "dead")
    /\ port_in = <<>>
    /\ rpc \notin ReadPhases \cup {"dispatch"}

\* C1: for every topic id of the u16 range and every payload that fits, the
\* bytes _send writes for the pair make the reader dispatch exactly one
\* frame, with that topic id and that payload.
C1_RoundTrip ==
    LoopDone =>
        /\ Len(wire) >= 2
        /\ Len(dispatched) = 2
        /\ dispatched[2].topic_id = sent.topic
        /\ dispatched[2].msg = sent.data

\* the round trip of the topic ids that struct.pack('<h') can pack
RoundTripOfShort ==
    (LoopDone /\ CanPackShort(sent.topic)) =>
        /\ Len(dispatched) = 2
        /\ dispatched[2].topic_id = sent.topic
        /\ dispatched[2].msg = sent.data
        /\ dispatched[2].frame = wire[2]

(***************************************************************************)
(* The registry alone: the TopicInfo handlers run, one after another, on   *)
(* TopicInfos that share topic ids, names, types and md5sums, and on a     *)
(* payload that does not deserialize.                                      *)
(***************************************************************************)
\* a message type the host cannot load, and an md5sum of no type
UnknownTypes == {9}

WrongMd5s == {99}

\* the md5sum a handler compares with the one of the TopicInfo
Md5For(kind, ty) ==
    CASE kind \in {"setupPublisher", "setupSubscriber"} -> MsgMd5(ty)
      [] kind \in {"setupServiceServerPublisher", "setupServiceClientSubscriber"} -> ResMd5(ty)
      [] kind \in {"setupServiceServerSubscriber", "setupServiceClientPublisher"} -> ReqMd5(ty)

InstallInfos(kind) ==
    {[topic_id |-> id, topic_name |-> name, message_type |-> tm[1], md5sum |-> tm[2],
      buffer_size |-> 64] :
        id \in {100, 101}, name \in {1, 2},
        tm \in ({1, 2} \X {Md5For(kind, 1), Md5For(kind, 2)})
                 \cup (UnknownTypes \X {Md5For(kind, 1)}) \cup ({1} \X WrongMd5s)}

InstallPayloads(kind) == {TopicInfoBytes(info) : info \in InstallInfos(kind)} \cup {<<1, 2, 3>>}

InitRegistry ==
    /\ Constructed
    /\ buffer_in = -1
    /\ transport = "serial"
    /\ port_in = <<>>
    /\ fed = <<>>
    /\ frame_starts = {}
    /\ write_queue = <<BytesItem(RequestTopicsFrame)>>
    /\ enqueued = <<FirstPut>>
    /\ sent = NoItem

\* the handler kind of the table is called with a payload
Install(kind) ==
    /\ ninstall < MaxInstall
    /\ \E data \in InstallPayloads(kind) : Setup(kind, data)
    /\ ninstall' = ninstall + 1
    /\ UNCHANGED <<udpVars, serviceVars, portVars, readerVars, writerVars, queueVars, lockVars, syncVars, now,
                   is_shutdown, hpc, ndevice, ncallback, sent, nechoed, fed, frame_starts,
                   logVars>>

NextRegistry == \E kind \in SetupKinds : Install(kind)

SpecRegistry == InitRegistry /\ [][NextRegistry]_vars

HandlerHalves == {"setupServiceServerPublisher", "setupServiceClientPublisher"}

IdHalves == {"setupServiceServerSubscriber", "setupServiceClientSubscriber"}

BindingMd5s(kind, name) ==
    {publishers[id].md5 : id \in {i \in DOMAIN publishers : publishers[i].topic = name}}
    \cup {subscribers[n].md5 : n \in {n \in DOMAIN subscribers : n = name}}
    \cup {Md5For(kind, services[n].type) : n \in {n \in DOMAIN services : n = name}}

Threads == {"reader", "writer", "hook", "callback"}

\* C3: with no transport error, every item put into the write queue is
\* written, one transport write per item: once the writer has nothing left
\* to take, the wire holds as many writes as items were enqueued.
C3_OneWritePerItem ==
    (~tx_error /\ ~is_shutdown /\ port_open /\ write_queue = <<>> /\ wpc \in {"top", "dead"}) =>
        Len(wire) = Len(enqueued)

\* C4: no thread holds the read lock and the write lock at the same time.
C4_NeverBothLocks ==
    \A t \in Threads : ~(Holds(read_lock, t) /\ Holds(write_lock, t))

\* both locks are held, the read lock by the reader inside tryRead and the
\* write lock by the writer inside _write
C4_Witness ==
    /\ Holds(read_lock, "reader")
    /\ rpc \in ReadPhases
    /\ Holds(write_lock, "writer")

\* C5: whenever the reader thread puts an item on the write queue (a request
\* for topics or the answer of a handler), it does not hold the read lock.
C5_ReaderPutsWithoutReadLock ==
    \A i \in DOMAIN enqueued : enqueued[i].by = "reader" => ~enqueued[i].held

\* the reader has put a request for topics and a handler's answer
C5_Witness ==
    \E i, j \in DOMAIN enqueued :
        /\ enqueued[i].by = "reader"
        /\ enqueued[i].item = BytesItem(RequestTopicsFrame)
        /\ enqueued[j].by = "reader"
        /\ enqueued[j].item.kind = "tuple"

\* C7: an item whose payload is longer than the negotiated subscribe-buffer
\* size does not end the writer thread.
C7_OversizeDoesNotStopWriter ==
    ~(wpc = "dead" /\ werr = "NameError")

\* C8: a read timeout inside tryRead does not make the reader return.
C8_TimeoutIsTransient ==
    ~(rpc = "returned" /\ reason = "timeout")

\* C9 (as amended): the reader returns for lost sync only from a synced
\* session in which more than 3 x timeout has passed since self.lastsync,
\* and so since the last time request it handled: time requests keep the
\* session, the valid frames of other topics do not.
C9_LostSyncOnlyWithoutTimeRequest ==
    /\ lastsync >= last_time_at
    /\ reason = "lost sync" =>
         /\ synced
         /\ returned_at - lastsync > 3 * timeout
         /\ returned_at - last_time_at > 3 * timeout

\* a session that has handled a time request returns for lost sync
C9_Witness ==
    /\ reason = "lost sync"
    /\ last_time_at >= 0

\* C9 (as stated): the reader returns for lost sync only if no valid frame
\* was decoded in the 3 x timeout before.
C9_LostSyncOnlyWithoutValidFrame ==
    reason = "lost sync" => returned_at - lastsync_success > 3 * timeout

(***************************************************************************)
(* More properties of the reader's decoding.                               *)
(***************************************************************************)
\* the whole bytes of a frame begin at position p of the stream: sync flag,
\* version and a length with its checksum, then topic id, payload and one
\* more byte
FramedAt(p) ==
    /\ Len(fed) >= p + 7
    /\ fed[p] = 255
    /\ fed[p + 1] = 254
    /\ (fed[p + 2] + fed[p + 3] + fed[p + 4]) % 256 = 255
    /\ fed[p + 3] < 128
    /\ Len(fed) >= p + 7 + fed[p + 2] + 256 * fed[p + 3]

\* the frame that begins at p has a wrong payload checksum
BadChecksumAt(p) == FramedAt(p) /\ ~WellFormed(FrameAt(p))

\* C11: a frame with a right header and length checksum and a wrong payload
\* checksum is consumed in full, logged and not dispatched, synced is not
\* set by it, the reader does not return, and its search for the sync flag
\* begins again at the byte behind the frame, so that a well-formed frame
\* there is dispatched.
C11_BadChecksumFrameDropped ==
    /\ \A p \in sync_starts :
         (BadChecksumAt(p) /\ ReaderPast(p)) =>
             /\ p \in dropped_at
             /\ \A i \in DOMAIN dispatched : dispatched[i].at # p
             /\ rpc = "returned" => raw_at # p
             /\ raw_at > p => raw_at >= p + Len(FrameAt(p))
             /\ LET q == p + Len(FrameAt(p)) IN
                (q \in frame_starts /\ raw_at > p /\ ReaderPast(q)) =>
                    \E i \in DOMAIN dispatched :
                        dispatched[i].at = q /\ dispatched[i].frame = FrameAt(q)
    /\ \A p \in dropped_at : BadChecksumAt(p)
    /\ dispatched = <<>> => ~synced

\* a well-formed frame directly behind a dropped one has been dispatched
C11_Witness ==
    \E p \in dropped_at, i \in DOMAIN dispatched :
        /\ dispatched[i].at = p + Len(FrameAt(p))
        /\ dispatched[i].at \in frame_starts

(***************************************************************************)
(* More properties of the session.                                         *)
(***************************************************************************)
\* the places in the record of the puts where the reader put something
ReaderPuts(q) == {i \in DOMAIN q : q[i].by = "reader"}

\* C12: a checksum-valid frame whose topic id is not in the handler table
\* runs no handler, makes the reader put exactly one request-topics frame
\* and go on with its loop; and the dispatch step asks for the topics again
\* only for an unknown topic id, never after a bound handler has run.
C12_UnknownTopicStep ==
    LET unknown == UnpackUShort(topic_id_header) \notin DOMAIN callbacks IN
    /\ rpc = "dispatch" /\ rpc' # rpc =>
         IF unknown
         THEN /\ rpc' = "requestTopics"
              /\ rt_ret' = "dispatch"
              /\ ReaderPuts(enqueued') = ReaderPuts(enqueued)
              /\ UNCHANGED <<registryVars, lastsync, last_time_at>>
         ELSE rpc' \in {"top", "returned"}
    /\ rpc' = "requestTopics" /\ rpc # rpc' =>
         /\ rt_ret' = "dispatch" <=> rpc = "dispatch"
         /\ rpc = "dispatch" => unknown
    /\ rt_ret = "dispatch" /\ rpc = "requestTopics" /\ rpc' # rpc =>
         rpc' = "flushInput" /\ ReaderPuts(enqueued') = ReaderPuts(enqueued)
    /\ rt_ret = "dispatch" /\ rpc = "flushInput" /\ rpc' # rpc =>
         rpc' = "put" /\ ReaderPuts(enqueued') = ReaderPuts(enqueued)
    /\ rt_ret = "dispatch" /\ rpc = "put" /\ rpc' # rpc =>
         /\ rpc' = "top"
         /\ enqueued' = Append(enqueued, [by |-> "reader",
                                          item |-> BytesItem(RequestTopicsFrame),
                                          held |-> FALSE])

C12_UnknownTopicAsksForTopics == [][C12_UnknownTopicStep]_vars

\* the reader is back at the top of its loop after a frame of an unknown
\* topic, and its request for the topics is in the record of the puts
C12_Witness ==
    /\ rpc = "top"
    /\ rt_ret = "dispatch"
    /\ dispatched # <<>>
    /\ dispatched[Len(dispatched)].topic_id \notin DOMAIN callbacks
    /\ enqueued # <<>>
    /\ enqueued[Len(enqueued)] = [by |-> "reader", item |-> BytesItem(RequestTopicsFrame),
                                  held |-> FALSE]

\* the writer thread has left processWriteQueue through its loop condition
WriterExited == wpc = "dead" /\ werr = "none"

\* C13: after the shutdown signal the stop-tx frame the hook has put is
\* written, and it is the last write of the session: when the writer has left
\* its loop after the hook ran, the frame is the last one on the wire and is
\* not left in the queue.
C13_StopFrameIsFinalWrite ==
    (hpc = "done" /\ WriterExited) =>
        /\ wire # <<>>
        /\ wire[Len(wire)] = TxStopFrame
        /\ \A i \in DOMAIN write_queue : write_queue[i] # BytesItem(TxStopFrame)

(***************************************************************************)
(* The session with its threads scheduled: the reader, the writer thread   *)
(* and the thread that runs the shutdown hook each take a step when they   *)
(* can.  Nothing is assumed of the transport, the device, the middleware   *)
(* or the clock.                                                           *)
(***************************************************************************)
SpecLive == Spec /\ WF_vars(Reader) /\ WF_vars(Writer) /\ WF_vars(Hook)

\* C14: after shutdown is signalled the writer thread leaves
\* processWriteQueue, whatever the transport does, so that the reader's join
\* returns.
C14_WriterExitsAfterShutdown == is_shutdown ~> wpc = "dead"

(***************************************************************************)
(* The listeners: RosSerialServer (TCP) and RosSerialUDPServer run one     *)
(* session after another in startSerialClient.  The thread that calls      *)
(* run() goes on, when run() has ended, with the finally block.  transport *)
(* is "udp" in this specification only.                                    *)
(***************************************************************************)
InitListener ==
    /\ Constructed
    /\ buffer_in = -1
    /\ transport \in {"tcp", "udp"}
    /\ port_in = <<>>
    /\ fed = <<>>
    /\ frame_starts = {}
    /\ write_queue = <<BytesItem(RequestTopicsFrame)>>
    /\ enqueued = <<FirstPut>>
    /\ sent = NoItem

\* a TopicInfo handler runs while the session is running
SessionInstall(kind) ==
    /\ rpc = "top"
    /\ Install(kind)

\* client.run() ends: it returns, or raises what the listener catches
RunEnds ==
    /\ rpc = "top"
    /\ \E why \in {"lost sync", "IOError", "RuntimeError"} : Return(why)
    /\ UNCHANGED <<udpVars, serviceVars, portVars, need, rbuf, msg_length, topic_id_header, msg, raw, rt_ret,
                   writerVars, queueVars, lockVars, syncVars, registryVars, envVars, logVars>>

ServiceServers == {name \in DOMAIN services : services[name].kind = "ServiceServer"}

ServiceClients == {name \in DOMAIN services : services[name].kind = "ServiceClient"}

\* the finally block of startSerialClient.  RosSerialServer closes the socket
\* and calls unregister() on the subscribers and then on the services, in the
\* order of the dict; a ServiceClient has no unregister, so the loop ends at
\* the first one with AttributeError, the servers before it shut down.
\* RosSerialUDPServer only logs.
StartSerialClientFinally ==
    /\ rpc = "returned"
    /\ IF transport = "tcp"
       THEN /\ port_open' = FALSE
            /\ subscribers' = [name \in DOMAIN subscribers |->
                                  [subscribers[name] EXCEPT !.live = FALSE]]
            /\ \E before \in SUBSET ServiceServers :
                   /\ ServiceClients = {} => before = ServiceServers
                   /\ services' = [name \in DOMAIN services |->
                                      IF name \in before
                                      THEN [services[name] EXCEPT !.live = FALSE]
                                      ELSE services[name]]
            /\ IF ServiceClients = {}
               THEN rpc' = "listen" /\ reason' = reason
               ELSE rpc' = "raised" /\ reason' = "AttributeError"
       ELSE /\ rpc' = "listen"
            /\ UNCHANGED <<port_open, subscribers, services, reason>>
    /\ UNCHANGED <<udpVars, serviceVars, transport, port_in, wire, need, rbuf, msg_length, topic_id_header, msg, raw,
                   rt_ret, returned_at, writerVars, queueVars, lockVars, syncVars, buffer_in,
                   buffer_out, callbacks, publishers, last_install, envVars, logVars>>

NextListener ==
    \/ \E kind \in SetupKinds : SessionInstall(kind)
    \/ RunEnds
    \/ StartSerialClientFinally
    \/ SubscriberCallback

SpecListener == InitListener /\ [][NextListener]_vars

\* C15: when the listener is through with a session that has ended, every
\* subscriber and every service of the session is unregistered and the
\* finally block has raised nothing, under both listeners.
C15_TeardownUnregistersAll ==
    rpc \in {"listen", "raised"} =>
        /\ rpc = "listen"
        /\ \A name \in DOMAIN subscribers : ~subscribers[name].live
        /\ \A name \in DOMAIN services : ~services[name].live

(***************************************************************************)
(* More properties of the registry.                                        *)
(***************************************************************************)
\* the md5sum an endpoint's handler was bound with
BoundMd5(h) ==
    CASE h.kind = "Publisher.handlePacket" -> h.md5
      [] h.kind = "ServiceServer.handlePacket" -> ResMd5(h.type)
      [] h.kind = "ServiceClient.handlePacket" -> ReqMd5(h.type)
      [] OTHER -> 0

EndpointHandlers ==
    {"Publisher.handlePacket", "ServiceServer.handlePacket", "ServiceClient.handlePacket"}

\* C16: a TopicInfo whose topic id is bound to an endpoint's handler with
\* another md5sum is skipped: the handler and the publisher stored under the
\* topic id are after the install what they were before.
C16_ReusedTopicIdSkipped ==
    [][ (ninstall' = ninstall + 1 /\ last_install'.info # NoInfo) =>
          LET id == last_install'.info.topic_id IN
          (/\ id \in DOMAIN callbacks
           /\ callbacks[id].kind \in EndpointHandlers
           /\ BoundMd5(callbacks[id]) # last_install'.info.md5sum) =>
              /\ callbacks'[id] = callbacks[id]
              /\ id \in DOMAIN publishers =>
                   id \in DOMAIN publishers' /\ publishers'[id] = publishers[id] ]_vars

\* the install that has just run failed on the md5sum: the TopicInfo names a
\* type of the host with an md5sum that is not the one its handler compares
Md5Mismatch(install) ==
    /\ ~install.ok
    /\ install.info # NoInfo
    /\ install.info.message_type \in KnownTypes
    /\ install.info.md5sum # Md5For(install.kind, install.info.message_type)

\* C17: an install that fails on the md5sum binds no handler, creates no
\* registry entry and no middleware handle, and leaves every other entry of
\* the handler table and of the registry as it was.
C17_Md5FailureConfined ==
    [][ (ninstall' = ninstall + 1 /\ Md5Mismatch(last_install')) =>
            /\ callbacks' = callbacks
            /\ publishers' = publishers
            /\ subscribers' = subscribers
            /\ services' = services ]_vars

\* C18: after any sequence of subscriber installs every topic name of the
\* subscriber registry has a live middleware subscription.
C18_EverySubscriberLive ==
    \A name \in DOMAIN subscribers : subscribers[name].live

C20_ControlFramesAreEncoded ==
    /\ SendFrame(0, <<>>) = RequestTopicsFrame
    /\ SendFrame(11, <<>>) = TxStopFrame
    /\ WellFormed(RequestTopicsFrame)
    /\ WellFormed(TxStopFrame)
    /\ (Len(wire) >= 2 /\ sent = TupleItem(0, <<>>)) =>
           wire[2] = <<255, 254, 0, 0, 255, 0, 0, 255>>
    /\ (Len(wire) >= 2 /\ sent = TupleItem(11, <<>>)) =>
           wire[2] = <<255, 254, 0, 0, 255, 11, 0, 244>>

\* _send has encoded (11, empty payload), and the reader has taken the frame
\* for a frame of topic 11
C20_Witness ==
    /\ sent = TupleItem(11, <<>>)
    /\ Len(wire) = 2
    /\ wire[2] = TxStopFrame
    /\ Len(dispatched) = 2
    /\ dispatched[2].frame = TxStopFrame
    /\ dispatched[2].topic_id = 11

\* C21 (as amended): _send of (topic 42, payload 01 02 03) writes the eleven
\* bytes FF FE 03 00 FC 2A 00 01 02 03 CF, and the reader that is fed these
\* bytes dispatches (42, 01 02 03).
C21_EncodeExample ==
    (Len(wire) >= 2 /\ sent = TupleItem(42, <<1, 2, 3>>)) =>
        /\ wire[2] = <<255, 254, 3, 0, 252, 42, 0, 1, 2, 3, 207>>
        /\ LoopDone =>
             /\ Len(dispatched) >= 2
             /\ dispatched[2].topic_id = 42
             /\ dispatched[2].msg = <<1, 2, 3>>
             /\ dispatched[2].frame = wire[2]

\* the frame of (42, 01 02 03) has gone over the loopback and was dispatched
C21_Witness ==
    /\ sent = TupleItem(42, <<1, 2, 3>>)
    /\ LoopDone
    /\ Len(wire) >= 2
    /\ Len(dispatched) >= 2
    /\ dispatched[2].topic_id = 42
    /\ dispatched[2].msg = <<1, 2, 3>>

\* C21 as stated: the bytes written for (42, 01 02 03) are the eight bytes
\* FF FE 03 00 FC 2A 00 30.
C21_EncodeExampleAsStated ==
    (Len(wire) >= 2 /\ sent = TupleItem(42, <<1, 2, 3>>)) =>
        wire[2] = <<255, 254, 3, 0, 252, 42, 0, 48>>

(***************************************************************************)
(* RosSerialUDPServer: the port of a session over UDP.  listen() waits for *)
(* a datagram and runs one session after another; the thread of the        *)
(* session calls inWaiting(), read() and flushInput(), all under the read  *)
(* lock of the session, and its writer thread calls write().  Datagrams    *)
(* are shorter than the 4096 bytes recvfrom asks for.                      *)
(***************************************************************************)
MaxDatagram == 3

MaxSession == 2

MAX_UDP_PACKET_SIZE == 508

\* two clients, the first of them also from a second port
UdpAddresses == {[ip |-> 1, port |-> 1], [ip |-> 1, port |-> 2], [ip |-> 2, port |-> 1]}

UdpLengths == {0, 1, 3}

\* the bytes of the k-th datagram: they tell the IP they come from and their
\* place in the stream
UdpPayload(k, ip, length) == [i \in 1..length |-> 100 * ip + 10 * k + i]

\* what read() is called with
ReadLengths == {1, 2}

\* the lengths of the messages write() is called with
WriteLengths == {0, 1, 508, 509, 1200}

WriteMessage(n) == [i \in 1..n |-> i % 256]

\* a datagram arrives at the socket
Arrive ==
    /\ narrived < MaxDatagram
    /\ \E from \in UdpAddresses, length \in UdpLengths :
           serversocket' = Append(serversocket,
                                  [from |-> from,
                                   data |-> UdpPayload(narrived + 1, from.ip, length)])
    /\ narrived' = narrived + 1
    /\ UNCHANGED <<clientVars, serviceVars, recv_buffer, client_address, isConnected, udp_msg,
                   rqsted_length, upc, udpWriteVars, udpListenVars, returned, accepted,
                   flushed, read_lost>>

\* listen(): recvfrom(1, MSG_PEEK) sees a datagram, which stays in the socket;
\* the address is stored if none is, and startSerialClient constructs the
\* SerialClient, whose __init__ ends with requestTopics() and so flushInput()
ListenPeek ==
    /\ lpc = "listen"
    /\ nsession < MaxSession
    /\ serversocket # <<>>
    /\ LET address == Head(serversocket).from IN
       /\ IF client_address = NoAddress
          THEN client_address' = address /\ isConnected' = TRUE
          ELSE UNCHANGED <<client_address, isConnected>>
       /\ trigger' = address
    /\ recv_buffer' = <<>>
    /\ lpc' = "session"
    /\ nsession' = nsession + 1
    /\ returned' = <<>>
    /\ accepted' = <<>>
    /\ flushed' = FALSE
    /\ read_lost' = FALSE
    /\ UNCHANGED <<clientVars, serviceVars, serversocket, udp_msg, rqsted_length, upc, udpWriteVars,
                   narrived>>

\* listen(): socket.timeout after five seconds without a datagram
ListenTimeout ==
    /\ lpc = "listen"
    /\ serversocket = <<>>
    /\ isConnected \/ client_address # NoAddress
    /\ isConnected' = FALSE
    /\ client_address' = NoAddress
    /\ UNCHANGED <<clientVars, serviceVars, serversocket, recv_buffer, udp_msg, rqsted_length, upc,
                   udpWriteVars, udpListenVars, udpLogVars>>

\* client.run() returns (lost sync, or a read error it has caught):
\* startSerialClient goes through its finally block, back to listen()
SessionReturns ==
    /\ lpc = "session"
    /\ upc = "idle"
    /\ lpc' = "listen"
    /\ UNCHANGED <<clientVars, serviceVars, udpPortVars, udpWriteVars, trigger, nsession, udpLogVars>>

\* RuntimeError out of the port goes through run(): except RuntimeError in
\* startSerialClient, then back to listen()
UdpRuntimeError ==
    /\ isConnected' = FALSE
    /\ client_address' = NoAddress
    /\ upc' = "idle"
    /\ lpc' = "listen"

\* the check of the sender that read() and inWaiting() share: a datagram from
\* the IP of the client with another port moves client_address
Rebound(address) ==
    IF address # client_address /\ address.ip = client_address.ip
    THEN address ELSE client_address

\* the payloads of the datagrams of the pinned IP, as they are taken
Accept(d) == IF d.from.ip = client_address.ip THEN accepted \o d.data ELSE accepted

\* inWaiting(): recvfrom(4096, MSG_DONTWAIT); the chunk is appended to
\* recv_buffer on every branch of the address check
UdpInWaiting ==
    /\ lpc = "session"
    /\ upc = "idle"
    /\ serversocket # <<>>
    /\ LET d == Head(serversocket) IN
       /\ serversocket' = Tail(serversocket)
       /\ IF d.data = <<>>
          THEN /\ UdpRuntimeError
               /\ UNCHANGED <<recv_buffer, accepted>>
          ELSE /\ client_address' = Rebound(d.from)
               /\ recv_buffer' = recv_buffer \o d.data
               /\ accepted' = Accept(d)
               /\ UNCHANGED <<isConnected, upc, lpc>>
    /\ UNCHANGED <<clientVars, serviceVars, udp_msg, rqsted_length, udpWriteVars, trigger, nsession,
                   returned, flushed, read_lost, narrived>>

\* read(rqsted_length), up to the loop: the bytes recv_buffer has
UdpRead ==
    /\ lpc = "session"
    /\ upc = "idle"
    /\ \E n \in ReadLengths :
         LET to_read == Min(Len(recv_buffer), n) IN
         /\ udp_msg' = Take(recv_buffer, to_read)
         /\ recv_buffer' = Drop(recv_buffer, to_read)
         /\ rqsted_length' = n
         /\ IF to_read = n
            THEN /\ returned' = returned \o Take(recv_buffer, to_read)
                 /\ upc' = "idle"
            ELSE /\ returned' = returned
                 /\ upc' = "recvfrom"
    /\ UNCHANGED <<clientVars, serviceVars, serversocket, client_address, isConnected, udpWriteVars,
                   udpListenVars, accepted, flushed, read_lost, narrived>>

\* read(): one turn of while len(self.msg) < rqsted_length with a datagram
UdpReadRecv ==
    /\ lpc = "session"
    /\ upc = "recvfrom"
    /\ serversocket # <<>>
    /\ LET d == Head(serversocket)
           to_add == rqsted_length - Len(udp_msg)
       IN
       /\ serversocket' = Tail(serversocket)
       /\ IF d.data = <<>>
          THEN /\ UdpRuntimeError
               /\ read_lost' = (read_lost \/ udp_msg # <<>>)
               /\ UNCHANGED <<udp_msg, recv_buffer, returned, accepted>>
          ELSE IF d.from # client_address /\ d.from.ip # client_address.ip
          THEN \* continue
               UNCHANGED <<udp_msg, recv_buffer, returned, accepted, client_address,
                           isConnected, upc, lpc, read_lost>>
          ELSE /\ client_address' = Rebound(d.from)
               /\ udp_msg' = udp_msg \o Take(d.data, Min(to_add, Len(d.data)))
               /\ recv_buffer' = recv_buffer \o Drop(d.data, Min(to_add, Len(d.data)))
               /\ accepted' = Accept(d)
               /\ IF Len(d.data) >= to_add
                  THEN /\ returned' = returned \o udp_msg'
                       /\ upc' = "idle"
                  ELSE /\ returned' = returned
                       /\ upc' = "recvfrom"
               /\ UNCHANGED <<isConnected, lpc, read_lost>>
    /\ UNCHANGED <<clientVars, serviceVars, rqsted_length, udpWriteVars, trigger, nsession, flushed,
                   narrived>>

\* read(): recvfrom raises socket.timeout; tryRead makes an IOError of it and
\* run() returns
UdpReadTimeout ==
    /\ lpc = "session"
    /\ upc = "recvfrom"
    /\ serversocket = <<>>
    /\ upc' = "idle"
    /\ lpc' = "listen"
    /\ read_lost' = (read_lost \/ udp_msg # <<>>)
    /\ UNCHANGED <<clientVars, serviceVars, serversocket, recv_buffer, client_address, isConnected, udp_msg,
                   rqsted_length, udpWriteVars, trigger, nsession, returned, accepted,
                   flushed, narrived>>

\* flushInput(), from requestTopics or txStopRequest of the session
UdpFlushInput ==
    /\ lpc = "session"
    /\ upc = "idle"
    /\ recv_buffer # <<>>
    /\ recv_buffer' = <<>>
    /\ flushed' = TRUE
    /\ UNCHANGED <<clientVars, serviceVars, serversocket, client_address, isConnected, udp_msg,
                   rqsted_length, upc, udpWriteVars, udpListenVars, returned, accepted,
                   read_lost, narrived>>

\* write(data), up to the loop, called by the writer thread of a session
UdpWrite ==
    /\ uwpc = "idle"
    /\ nsession > 0
    /\ \E n \in WriteLengths : write_data' = WriteMessage(n)
    /\ offset' = 0
    /\ uwpc' = IF ~isConnected \/ client_address = NoAddress THEN "not connected"
               ELSE IF write_data' = <<>> THEN "done" ELSE "sendto"
    /\ UNCHANGED <<clientVars, serviceVars, udpPortVars, sendto, udpListenVars, udpLogVars>>

\* a write() that sends the message as one datagram
UdpSendtoWholeMessage ==
    /\ uwpc = "sendto"
    /\ IF client_address = NoAddress
       THEN /\ uwpc' = "TypeError"
            /\ UNCHANGED <<sendto, offset>>
       ELSE /\ sendto' = Append(sendto, [to |-> client_address, data |-> write_data,
                                        pinned |-> client_address])
            /\ offset' = Len(write_data)
            /\ uwpc' = "done"
    /\ UNCHANGED <<clientVars, serviceVars, udpPortVars, write_data, udpListenVars, udpLogVars>>

\* write(): one turn of while offset < total_length
UdpSendto ==
    /\ uwpc = "sendto"
    /\ LET total_length == Len(write_data)
           chunk_size == Min(MAX_UDP_PACKET_SIZE, total_length - offset)
           chunk == SubSeq(write_data, offset + 1, offset + chunk_size)
       IN IF client_address = NoAddress
          THEN \* sendto(chunk, None)
               /\ uwpc' = "TypeError"
               /\ UNCHANGED <<sendto, offset>>
          ELSE /\ sendto' = Append(sendto, [to |-> client_address, data |-> chunk,
                                           pinned |-> client_address])
               /\ offset' = offset + chunk_size
               /\ uwpc' = IF offset' < total_length THEN "sendto" ELSE "done"
    /\ UNCHANGED <<clientVars, serviceVars, udpPortVars, write_data, udpListenVars, udpLogVars>>

\* the listener, with its sessions seen by what they do to the port
InitUdp ==
    /\ InitListener
    /\ transport = "udp"

UdpListener ==
    \/ ListenPeek
    \/ ListenTimeout
    \/ SessionReturns

UdpReader ==
    \/ UdpInWaiting
    \/ UdpRead
    \/ UdpReadRecv
    \/ UdpReadTimeout
    \/ UdpFlushInput

NextUdp ==
    \/ Arrive
    \/ UdpListener
    \/ UdpReader

SpecUdp == InitUdp /\ [][NextUdp]_vars

NextUdpWrite ==
    \/ Arrive
    \/ ListenPeek
    \/ UdpInWaiting
    \/ UdpWrite
    \/ UdpSendto

SpecUdpWrite == InitUdp /\ [][NextUdpWrite]_vars

\* C22: a write of n bytes on a connected UDP server sends ceil(n / 508)
\* datagrams, each of at most 508 bytes and all but the last of 508 bytes,
\* which are the message cut in order, each to the client address of that
\* moment; 1200 bytes go out as 508, 508, 184.
C22_WriteChunks ==
    uwpc = "done" =>
        LET n == Len(write_data) IN
        /\ Len(sendto) = (n + 507) \div 508
        /\ \A i \in DOMAIN sendto :
             /\ Len(sendto[i].data) <= 508
             /\ i < Len(sendto) => Len(sendto[i].data) = 508
             /\ sendto[i].data = SubSeq(write_data, 508 * (i - 1) + 1, Min(508 * i, n))
             /\ sendto[i].to = sendto[i].pinned
             /\ sendto[i].to # NoAddress
        /\ n = 1200 =>
             /\ Len(sendto) = 3
             /\ Len(sendto[1].data) = 508
             /\ Len(sendto[2].data) = 508
             /\ Len(sendto[3].data) = 184

\* 1200 bytes were written while the client moved to another port
C22_Witness ==
    /\ uwpc = "done"
    /\ Len(write_data) = 1200
    /\ Len(sendto) = 3
    /\ sendto[1].to # sendto[3].to

\* where a byte of a datagram comes from
OriginIp(byte) == byte \div 100

\* C23: once a client is pinned, no byte of a datagram from another IP is
\* returned by read() or counted by inWaiting().
C23_NoStrangerBytes ==
    lpc = "session" =>
        /\ \A i \in DOMAIN recv_buffer : OriginIp(recv_buffer[i]) = client_address.ip
        /\ \A i \in DOMAIN returned : OriginIp(returned[i]) = client_address.ip


\* C24: a diagnostic is published every time sync is lost, by a session that
\* never synced and by a synced session that gives up and returns, and at
\* every protocol mismatch; self.lastsync_lost is set to the time of the loss
\* before the diagnostic is built.
C24_DiagnosticOnEveryLoss ==
    /\ reason = "lost sync" =>
           \E i \in DOMAIN diagnostics :
               /\ diagnostics[i].message = ERROR_NO_SYNC
               /\ diagnostics[i].lastsync_lost = returned_at
    /\ \A i \in DOMAIN diagnostics :
           diagnostics[i].message = ERROR_NO_SYNC =>
               diagnostics[i].lastsync_lost - diagnostics[i].lastsync > timeout * 3
    /\ Cardinality({i \in DOMAIN diagnostics :
                      diagnostics[i].message = ERROR_MISMATCHED_PROTOCOL})
         >= Cardinality(mismatch_at)


\* C25: a write timeout is retried with the same item before any later item
\* is taken; a runtime error raised by the transport during a write ends the
\* writer loop, so no later queue item is taken and written.
C25_WriteErrorHandling ==
    [][/\ WriterWriteTimeout =>
             /\ wpc' = "try"
             /\ wdata' = wdata
             /\ write_queue' = write_queue
       /\ WriterWriteRuntimeError => wpc' = "dead"
       /\ (WriterLoop /\ wpc' = "try") => ~(transport = "tcp" /\ tx_error)]_vars


\* the sync budget is exceeded at the head of the reader's loop
BudgetExceeded ==
    /\ rpc = "top"
    /\ ~(wpc = "dead" \/ is_shutdown)
    /\ (now - lastsync) > (timeout * 3)

\* C26: each time a never-synced session finds the budget exceeded the reader
\* does not return: it publishes one NO_SYNC diagnostic, enqueues exactly one
\* request-topics frame and sets self.lastsync to now, so that the next retry is
\* a whole budget later; self.lastsync is refreshed also on the branch
\* taken when the session was synced before.
C26_RetryOncePerWindow ==
    [][/\ (RunLoop /\ BudgetExceeded /\ ~synced) =>
             /\ rpc' = "requestTopics"
             /\ rt_ret' = "no sync"
             /\ Len(diagnostics') = Len(diagnostics) + 1
             /\ diagnostics'[Len(diagnostics')].message = ERROR_NO_SYNC
             /\ enqueued' = enqueued
       /\ (RequestTopicsPut /\ rt_ret = "no sync") =>
             /\ Len(enqueued') = Len(enqueued) + 1
             /\ enqueued'[Len(enqueued')].item = BytesItem(RequestTopicsFrame)
             /\ lastsync' = now
             /\ rpc' # "returned"
       /\ (RunLoop /\ BudgetExceeded /\ synced) => lastsync' = now]_vars

\* what read() has gathered and not yet returned
Gathered == IF upc = "recvfrom" THEN udp_msg ELSE <<>>

\* C27: as long as flushInput() is not called, the bytes successive read(n)
\* calls return, with inWaiting() calls between them, are a prefix of the
\* payloads of the accepted datagrams in arrival order, the rest of these
\* payloads is what the transport still holds, and each successful read(n)
\* returns exactly n bytes.
C27_ByteStream ==
    /\ []((lpc = "session" /\ ~flushed) =>
             returned \o Gathered \o recv_buffer = accepted)
    /\ [][(lpc = "session" /\ lpc' = "session" /\ returned' # returned) =>
             /\ returned' = returned \o udp_msg'
             /\ Len(udp_msg') = rqsted_length']_vars


\* C28: every session the listener starts is pinned to the source address of
\* the datagram that triggered it, whatever ended the session before it.
C28_SessionPinnedToTrigger ==
    [][ListenPeek => client_address' = trigger']_vars


(***************************************************************************)
(* A service server of the device: the device announces the two halves of  *)
(* the service, the middleware runs ServiceServer.callback in a thread of  *)
(* its own for every call, and the reader hands the replies of the device  *)
(* to ServiceServer.handlePacket.  A request carries the number of its     *)
(* caller and the reply to it carries the same number.                     *)
(***************************************************************************)
\* frames the device sends in this specification
MaxServiceFrame == 4

SrvName == 1
SrvResponseTopic == 100
SrvRequestTopic == 101

\* the TopicInfo of one half of the service
ServiceInfo(kind) ==
    [topic_id |-> IF kind = "setupServiceServerPublisher"
                  THEN SrvResponseTopic ELSE SrvRequestTopic,
     topic_name |-> SrvName, message_type |-> 1, md5sum |-> Md5For(kind, 1),
     buffer_size |-> 64]

\* the requests ServiceServer.callback has enqueued, in order
ServiceRequests == SelectSeq(enqueued, LAMBDA e : e.by = "service")

\* a reply nobody has asked for
Unsolicited == <<9>>

\* no thread is inside ServiceServer.callback
NoCallPending == \A c \in Callers : cpc[c] \in {"idle", "returned", "AttributeError"}

\* the device announces a half of the service, answers the oldest request it
\* has not answered, or sends a reply while no call is pending
DeviceService ==
    /\ ndevice < MaxServiceFrame
    /\ \/ /\ \E kind \in {"setupServiceServerPublisher", "setupServiceServerSubscriber"} :
                Feed(DeviceFrame(IF kind = "setupServiceServerPublisher"
                                 THEN ID_SERVICE_SERVER + ID_PUBLISHER
                                 ELSE ID_SERVICE_SERVER + ID_SUBSCRIBER,
                                 TopicInfoBytes(ServiceInfo(kind))), TRUE)
          /\ nanswered' = nanswered
       \/ /\ nanswered < Len(ServiceRequests)
          /\ Feed(DeviceFrame(SrvResponseTopic, ServiceRequests[nanswered + 1].item.data), TRUE)
          /\ nanswered' = nanswered + 1
       \/ /\ NoCallPending
          /\ Feed(DeviceFrame(SrvResponseTopic, Unsolicited), TRUE)
          /\ nanswered' = nanswered
    /\ ndevice' = ndevice + 1
    /\ UNCHANGED <<udpVars, response, cpc, cret, transport, port_open, wire, readerVars,
                   writerVars, queueVars, lockVars, syncVars, registryVars, now, is_shutdown,
                   hpc, ncallback, sent, nechoed, logVars>>

\* callback(req): self.response = None
ServiceCallback(c) ==
    /\ cpc[c] = "idle"
    /\ SrvName \in DOMAIN services
    /\ services[SrvName].kind = "ServiceServer"
    /\ response' = [response EXCEPT ![SrvName] = None]
    /\ cpc' = [cpc EXCEPT ![c] = "send"]
    /\ UNCHANGED <<clientVars, udpVars, cret, nanswered>>

\* callback(req): self.parent.send(self.id, ...); self.id is an attribute
\* only setupServiceServerSubscriber sets
ServiceSend(c) ==
    /\ cpc[c] = "send"
    /\ IF services[SrvName].id < 0
       THEN /\ cpc' = [cpc EXCEPT ![c] = "AttributeError"]
            /\ UNCHANGED queueVars
       ELSE /\ send("service", services[SrvName].id, <<c>>)
            /\ cpc' = [cpc EXCEPT ![c] = "wait"]
    /\ UNCHANGED <<udpVars, response, cret, nanswered, portVars, readerVars, writerVars,
                   lockVars, syncVars, registryVars, envVars, logVars>>

\* callback(req): while self.response is None: pass
ServiceWait(c) ==
    /\ cpc[c] = "wait"
    /\ response[SrvName] # None
    /\ cpc' = [cpc EXCEPT ![c] = "return"]
    /\ UNCHANGED <<clientVars, udpVars, response, cret, nanswered>>

\* callback(req): return self.response
ServiceReturn(c) ==
    /\ cpc[c] = "return"
    /\ cret' = [cret EXCEPT ![c] = response[SrvName]]
    /\ cpc' = [cpc EXCEPT ![c] = "returned"]
    /\ UNCHANGED <<clientVars, udpVars, response, nanswered>>

ServiceCall ==
    \E c \in Callers :
        \/ ServiceCallback(c)
        \/ ServiceSend(c)
        \/ ServiceWait(c)
        \/ ServiceReturn(c)

InitService == InitRegistry

NextService ==
    \/ DeviceService
    \/ ServiceCall
    \/ RunLoop
    \/ RequestTopicsLock
    \/ RequestTopicsFlush
    \/ RequestTopicsPut
    \/ RunAcquire
    \/ RunInWaiting
    \/ TryReadLock
    \/ TryReadPort
    \/ RunSyncFlag
    \/ RunProtocol
    \/ RunMessageLength
    \/ RunTopicId
    \/ RunData
    \/ RunChecksum
    \/ RunDispatch

SpecService == InitService /\ [][NextService]_vars

(***************************************************************************)
(* The reader over streams of parameter requests: a request for a name of  *)
(* one character, a request whose payload does not deserialize, a request  *)
(* the link cuts short, and the frames that keep the rest of the reader's  *)
(* loop busy.                                                              *)
(***************************************************************************)
ParamRequestBytes == <<1, 0, 0, 0, 112>>

ParamFrames ==
    {DeviceFrame(ID_PARAMETER_REQUEST, ParamRequestBytes),
     DeviceFrame(ID_PARAMETER_REQUEST, <<112>>),
     DeviceFrame(ID_TIME, <<>>),
     DeviceFrame(125, <<255>>)}

InitParam ==
    /\ Constructed
    /\ buffer_in = -1
    /\ transport \in {"serial", "tcp"}
    /\ \/ \E f \in ParamFrames :
            /\ port_in = f
            /\ frame_starts = {1}
       \/ \E f \in ParamFrames, g \in ParamFrames :
            /\ port_in = f \o g
            /\ frame_starts = {1, Len(f) + 1}
       \/ \E f \in ParamFrames :
            /\ port_in = f \o Take(DeviceFrame(ID_PARAMETER_REQUEST, ParamRequestBytes), 9)
            /\ frame_starts = {1}
    /\ fed = port_in
    /\ write_queue = <<BytesItem(RequestTopicsFrame)>>
    /\ enqueued = <<FirstPut>>
    /\ sent = NoItem

SpecParam == InitParam /\ [][NextCodec]_vars

\* the reader is about to run handleParameterRequest on a payload that
\* deserializes
ParameterRequestDispatch ==
    LET topic == UnpackUShort(topic_id_header) IN
    /\ rpc = "dispatch"
    /\ topic \in DOMAIN callbacks
    /\ callbacks[topic].kind = "handleParameterRequest"
    /\ CanDeserializeParamRequest(msg)

\* C29: every parameter request that deserializes makes the reader enqueue
\* exactly one response on ID_PARAMETER_REQUEST and go on with its loop,
\* whatever the stored value is: missing, a dictionary, a scalar, a list of
\* one type, a list of mixed types or an empty list.
C29_ParameterRequestAnswered ==
    [][(ParameterRequestDispatch /\ rpc' # rpc) =>
          /\ rpc' # "returned"
          /\ Len(enqueued') = Len(enqueued) + 1
          /\ enqueued'[Len(enqueued')].item.kind = "tuple"
          /\ enqueued'[Len(enqueued')].item.topic = ID_PARAMETER_REQUEST]_vars


\* C30: each call of the service returns the response the device sent in
\* reply to that call's own request: no response goes to two callers, no
\* caller gets the reply to another request, also with two calls at a time or
\* a reply that comes while no call is pending; and a request is enqueued only
\* with the topic id the request half of the service has announced.
C30_CallReturnsOwnResponse ==
    /\ \A c \in Callers : cpc[c] = "returned" => cret[c] = <<c>>
    /\ \A i \in DOMAIN ServiceRequests :
           /\ ServiceRequests[i].item.kind = "tuple"
           /\ ServiceRequests[i].item.topic = SrvRequestTopic


(***************************************************************************)
(* The TopicInfo handlers called with topic ids of the reserved range: the *)
(* device announces endpoints under the ids __init__ has bound to the      *)
(* control handlers, and under an id of its own.                           *)
(***************************************************************************)
ReservedIds == DOMAIN InitCallbacks

ReservedInfos(kind) ==
    {[topic_id |-> id, topic_name |-> 1, message_type |-> 1, md5sum |-> md5,
      buffer_size |-> 64] :
        id \in ReservedIds \cup {100}, md5 \in {Md5For(kind, 1)} \cup WrongMd5s}

\* the handler kind of the table is called with one of these TopicInfos
InstallReserved(kind) ==
    /\ ninstall < MaxInstall
    /\ \E info \in ReservedInfos(kind) : Setup(kind, TopicInfoBytes(info))
    /\ ninstall' = ninstall + 1
    /\ UNCHANGED <<udpVars, serviceVars, portVars, readerVars, writerVars, queueVars, lockVars,
                   syncVars, now, is_shutdown, hpc, ndevice, ncallback, sent, nechoed, fed,
                   frame_starts, logVars>>

NextReserved == \E kind \in SetupKinds : InstallReserved(kind)

SpecReserved == InitRegistry /\ [][NextReserved]_vars

\* C31: the reserved control ids stay bound to the handlers __init__ has
\* installed, after any sequence of TopicInfo installs, also one whose
\* topic_id is a reserved id.
C31_ReservedIdsStayBound ==
    \A id \in ReservedIds :
        /\ id \in DOMAIN callbacks
        /\ callbacks[id] = InitCallbacks[id]


\* the TopicInfo processed last was a subscriber's, it raised nothing, and
\* the subscriber of its topic name is the only one there is
LatestSubscriberInfo ==
    /\ last_install.kind = "setupSubscriber"
    /\ last_install.ok
    /\ last_install.info # NoInfo
    /\ DOMAIN subscribers = {last_install.info.topic_name}

\* C32: a message a subscriber forwards to the device is enqueued with the
\* topic_id of the most recent successfully processed TopicInfo of its topic
\* name, also when that TopicInfo repeats name and type with another id.
C32_FramedWithLatestTopicId ==
    [][(SubscriberCallback /\ LatestSubscriberInfo) =>
          /\ enqueued'[Len(enqueued')].item.kind = "tuple"
          /\ enqueued'[Len(enqueued')].item.topic = last_install.info.topic_id]_vars

=============================================================================
